---- MODULE Spec2Model ----
(***************************************************************************)
(* Friday AI browser client: the job-status hook (useSSEJob), the          *)
(* multi-file upload widget MultiUploaderWithStatus in its polling and SSE *)
(* variants, and the single-file widget CrawlUploadWithStatus.             *)
(*                                                                         *)
(* JavaScript runs one handler at a time, so every action below is one     *)
(* run-to-completion piece of code: an event handler, or the stretch of an *)
(* async function between two awaits.  A React state update made by a      *)
(* handler is committed, and the effects of the resulting render are run,  *)
(* within the same action.                                                 *)
(***************************************************************************)
EXTENDS Integers, Sequences, FiniteSets, TLC

(***************************************************************************)
(* Bounds of the model.                                                    *)
(***************************************************************************)
\* connections one hook instance may open in a run of the hook model
MaxConns == 3

\* files the user adds to one multi-file widget
MaxItems == 2

\* presses of "Start Uploads" on one multi-file widget
MaxRuns == 2

\* presses of "Start Uploads" in the specification of a single batch
MaxBatches == 1

\* presses of "Upload" on one single-file widget
MaxCrawlRuns == 2

\* status GETs of the single-file widget outstanding at once
MaxGets == 2

\* longest wait (in sleeps of the polling loop) a deployment script is given
MaxWait == 2

\* largest -Retries argument of Invoke-WithRetry
MaxRetries == 4

\* longest value of a build-time base-URL variable, in characters
MaxLen == 2

\* for ($i = 1; $i -le 20; $i++) of Test-Url
MaxHealthAttempts == 20

\* fetch call sites in a main.js
MaxSites == 2

\* paths listed in the API description document
MaxPaths == 2

\* files picked in the page-level uploader
MaxPageItems == 2

\* clicks on its Upload button
MaxPageRuns == 1

\* calls of handleUpload in the drag-and-drop widget
MaxUploads == 2

\* ids the documents sequence hands out
MaxDocIds == 2

\* ids the chunks sequence hands out
MaxChunkIds == 2

(***************************************************************************)
(* Values shared by the components.                                        *)
(***************************************************************************)
\* status values of an ingestion job (JobUpdate.job.status)
JobStatus == {"queued", "processing", "done", "error"}

TerminalStatus == {"done", "error"}

\* payloads of an "update" event of the stream: a JobUpdate {ok, job?}, where
\* job is the status it carries or "none", or data that JSON.parse rejects
JobUpdate == [ok : BOOLEAN, job : JobStatus \cup {"none"}]

Garbage == [ok |-> FALSE, job |-> "unparseable"]

\* what onUpdate has been handed before any update arrived
NoUpdate == [ok |-> FALSE, job |-> "never"]

\* FileState.stage
Stage ==
  {"queued", "signing", "uploading", "confirming", "processing", "done", "error"}

Min(S) == CHOOSE x \in S : \A y \in S : x <= y

VARIABLES
  hook,          \* useSSEJob instance: es (0 = null) and the EventSources it created
  hookJobId,     \* the jobId argument of that instance ("" = null/empty)
  env,           \* API_BASE set, window defined, "EventSource" in window
  hookUpdates,   \* the last update handed to onUpdate
  items,         \* MultiUploaderWithStatus: the items state, item id = position
  runs,          \* the invocations of startAll, each with the items array it iterates
  job,           \* server side: status of the ingestion job of each item id
  sse,           \* the useSSEJob instances processOne created, with their item
  crawl,         \* CrawlUploadWithStatus: React state file, msg, job, jobId
  crawlFx,       \* its hook instance, effect cleanup, pollTimer ref, intervals, GETs
  crawlRuns,     \* the invocations of run(), each at its pending await
  crawlJobs,     \* server side: status of the job of each run's external id
  crawlSeen,     \* history: the job shown, and the jobs with a terminal update delivered
  bake,          \* one run of a bake-and-verify script: position, inputs read, exit code
  doctor,        \* one run of a frontend doctor script: position, responses, reports
  retry,         \* one call of Invoke-WithRetry: $Retries, $i, what the action did so far
  base,          \* a page load: the build-time variables, the globals, the resolved bases
  call,          \* one call of an API client helper: the response, what the helper did
  localDoctor,   \* a run of a local doctor script: the machine, the steps done, the exit
  db,            \* the database of db_init.sql: documents, chunks, the two id sequences
  waitLoop,      \* one run of a polling loop of the host scripts: attempts made, clock
  patchRun,      \* one run of a source-patch step: the text read and the text written
  smoke,         \* one run of a smoke-test client: routes, position, requests sent
  page,          \* pages/MultiUploader.jsx: items, the batch loop, the job streams
  dnd,           \* DragDropUpload: file, busy, the upload sequences in flight
  dedupe         \* one run of the duplicate-cleanup script: files, the answer, deletions

hookVars == <<hook, hookJobId, hookUpdates>>

muVars == <<items, runs, job, sse>>

crawlVars == <<crawl, crawlFx, crawlRuns, crawlJobs, crawlSeen>>

\* the host automation scripts and the client library
toolVars == <<bake, doctor, retry, base, call, localDoctor>>

\* the database, the remaining scripts and the remaining browser components
extVars == <<db, waitLoop, patchRun, smoke, page, dnd, dedupe>>

vars == <<hookVars, env, muVars, crawlVars, toolVars, extVars>>

\* the state of the other components, which a component's actions leave alone
notHook == <<muVars, crawlVars, toolVars, extVars>>

notMU == <<hookVars, crawlVars, toolVars, extVars>>

notCrawl == <<hookVars, muVars, toolVars, extVars>>

\* the browser components, which the scripts and the client library leave alone
notTools == <<hookVars, env, muVars, crawlVars, extVars>>

notExt == <<hookVars, env, muVars, crawlVars, toolVars>>

notDb == <<waitLoop, patchRun, smoke, page, dnd, dedupe, notExt>>

notWait == <<db, patchRun, smoke, page, dnd, dedupe, notExt>>

notPatch == <<db, waitLoop, smoke, page, dnd, dedupe, notExt>>

notSmoke == <<db, waitLoop, patchRun, page, dnd, dedupe, notExt>>

notPage == <<db, waitLoop, patchRun, smoke, dnd, dedupe, notExt>>

notDnd == <<db, waitLoop, patchRun, smoke, page, dedupe, notExt>>

notDedupe == <<db, waitLoop, patchRun, smoke, page, dnd, notExt>>

(***************************************************************************)
(* useSSEJob (src/hooks/useSSEJob.ts).  An instance is the closure state   *)
(* of one call of useSSEJob: the variable es, and every EventSource that   *)
(* start() created, each "open" or "closed".                               *)
(***************************************************************************)
NewHook == [es |-> 0, conns |-> <<>>]

\* es?.close(); es = null  -- the body shared by stop() and es.onerror
CloseEs(h) ==
  [es |-> 0,
   conns |-> [c \in DOMAIN h.conns |-> IF c = h.es THEN "closed" ELSE h.conns[c]]]

stop(h) == CloseEs(h)

onerror(h) == CloseEs(h)

\* start(): the two early returns, then es = new EventSource(...)
start(h, jobId, e) ==
  IF jobId = "" \/ ~e.apiBase \/ ~e.window THEN h
  ELSE IF ~e.eventSource THEN h
  ELSE [es |-> Len(h.conns) + 1, conns |-> Append(h.conns, "open")]

\* supported: typeof window !== "undefined" && "EventSource" in window
supported(e) == e.window /\ e.eventSource

OpenConns(h) == {c \in DOMAIN h.conns : h.conns[c] = "open"}

HookEnvs == [apiBase : BOOLEAN, window : BOOLEAN, eventSource : BOOLEAN]

\* no bake-and-verify script is running
BakeIdle == bake = [script |-> "none", pc |-> "end"]

\* no frontend doctor script is running
DoctorIdle == doctor = [script |-> "none", pc |-> "end"]

\* Invoke-WithRetry is not being called
RetryIdle == retry = [N |-> 0, pc |-> "idle"]

\* no client module has been loaded
BaseIdle == base = [defs |-> <<>>, pc |-> "idle"]

\* no API client helper has been called
CallIdle == call = [helper |-> "none", pc |-> "idle"]

\* no local doctor script runs
LocalIdle == localDoctor = [script |-> "none", pc |-> "idle"]

\* no script runs and the client library is not in use
ToolsIdle == BakeIdle /\ DoctorIdle /\ RetryIdle /\ BaseIdle /\ CallIdle /\ LocalIdle

\* no statement has run against the database
DbIdle == db = [pc |-> "idle"]

\* no polling loop runs
WaitIdle == waitLoop = [pc |-> "idle"]

\* no source-patch step runs
PatchIdle == patchRun = [pc |-> "idle"]

\* no smoke-test client runs
SmokeIdle == smoke = [pc |-> "idle"]

\* the page-level uploader is not mounted
PageIdle == page = [pc |-> "idle"]

\* the drag-and-drop widget is not mounted
DndIdle == dnd = [pc |-> "idle"]

\* the duplicate-cleanup script does not run
DedupeIdle == dedupe = [pc |-> "idle"]

ExtIdle ==
  /\ DbIdle
  /\ WaitIdle
  /\ PatchIdle
  /\ SmokeIdle
  /\ PageIdle
  /\ DndIdle
  /\ DedupeIdle

\* no single-file widget is mounted
CrawlIdle ==
  /\ crawl = [file |-> FALSE, msg |-> "", job |-> "none", jobId |-> 0]
  /\ crawlFx = [hook |-> [id |-> 0, h |-> NewHook], cleanup |-> "none",
                pollTimer |-> 0, intervals |-> {}, gets |-> <<>>]
  /\ crawlRuns = <<>>
  /\ crawlJobs = [r \in 1..MaxCrawlRuns |-> "none"]
  /\ crawlSeen = [shown |-> 0, terminal |-> {}]

\* no multi-file widget is mounted
MUIdle ==
  /\ items = <<>>
  /\ runs = <<>>
  /\ job = [i \in 1..MaxItems |-> "none"]
  /\ sse = <<>>

\* no stand-alone hook instance is in use
HookIdle ==
  /\ hook = NewHook
  /\ hookJobId = ""
  /\ hookUpdates = NoUpdate

HookInit ==
  /\ hook = NewHook
  /\ hookJobId \in {"", "job"}
  /\ env \in HookEnvs
  /\ hookUpdates = NoUpdate
  /\ MUIdle
  /\ CrawlIdle
  /\ ToolsIdle
  /\ ExtIdle

\* the caller calls start()
HookStart ==
  /\ Len(hook.conns) < MaxConns
  /\ hook' = start(hook, hookJobId, env)
  /\ UNCHANGED <<hookJobId, env, hookUpdates, notHook>>

\* the caller calls stop()
HookStop ==
  /\ hook' = stop(hook)
  /\ UNCHANGED <<hookJobId, env, hookUpdates, notHook>>

\* an "update" event arrives on an open EventSource of the instance
HookUpdate ==
  \E c \in OpenConns(hook), data \in JobUpdate \cup {Garbage} :
    /\ hookUpdates' = IF data = Garbage THEN hookUpdates ELSE data
    /\ UNCHANGED <<hook, hookJobId, env, notHook>>

\* an error event arrives on an open EventSource of the instance; the browser
\* either keeps that EventSource reconnecting or, on a fatal error, closes it
HookError ==
  \E c \in OpenConns(hook), fatal \in BOOLEAN :
    /\ hook' = LET h == onerror(hook)
               IN  IF fatal THEN [h EXCEPT !.conns[c] = "closed"] ELSE h
    /\ UNCHANGED <<hookJobId, env, hookUpdates, notHook>>

HookNext == HookStart \/ HookStop \/ HookUpdate \/ HookError

SpecHook == HookInit /\ [][HookNext]_vars

(***************************************************************************)
(* MultiUploaderWithStatus (src/components/MultiUploader.tsx, and the SSE  *)
(* variant of the same component).  An item is identified by its position  *)
(* in items: ids are fresh UUIDs and items are only ever appended.         *)
(***************************************************************************)
\* a FileState as addFiles creates it (jobStatus "none" = undefined)
NewFileState == [stage |-> "queued", jobStatus |-> "none"]

\* canStart: some item is queued or errored
canStart(its) == \E i \in DOMAIN its : its[i].stage \in {"queued", "error"}

\* patch(id, p): setItems(prev => prev.map(it => it.id === id ? {...it, ...p} : it))
patch(its, id, p) ==
  [i \in DOMAIN its |->
     IF i = id
     THEN [f \in DOMAIN its[i] |-> IF f \in DOMAIN p THEN p[f] ELSE its[i][f]]
     ELSE its[i]]

\* the stage the SSE variant derives from a job status
StageOf(status) ==
  IF status = "done" THEN "done" ELSE IF status = "error" THEN "error" ELSE "processing"

\* startAll's for loop from position `from` of the items array it closed over:
\* the first item found queued or errored there is handed to processOne, which
\* patches it to signing and awaits the presign fetch; with none left the loop ends
loop(run, its, from) ==
  LET cand == {j \in from..Len(run.snap) : run.snap[j] \in {"queued", "error"}}
  IN  IF cand = {}
      THEN [run |-> [run EXCEPT !.idx = Len(run.snap) + 1, !.pc = "end"], items |-> its]
      ELSE [run |-> [run EXCEPT !.idx = Min(cand), !.pc = "signing",
                                !.started = @ \cup {Min(cand)}],
            items |-> patch(its, Min(cand), [stage |-> "signing"])]

\* processOne returned: the loop goes on behind the item it was called for
resume(run, its) == loop(run, its, run.idx + 1)

\* a failure that escapes processOne and ends startAll
failedThrows(run, its) ==
  [run |-> [run EXCEPT !.idx = Len(run.snap) + 1, !.pc = "end"],
   items |-> patch(its, run.idx, [stage |-> "error"])]

\* a step of processOne failed: patch(id, {stage: "error", ...}); return
failed(run, its) == resume(run, patch(its, run.idx, [stage |-> "error"]))

\* server side of confirm_upload for an external id: the job is scheduled; an id
\* that is already indexed is refused
confirm_upload(jobs, id) ==
  IF jobs[id] = "done" THEN [ok |-> FALSE, jobs |-> jobs]
  ELSE IF jobs[id] \in {"none", "error"}
       THEN [ok |-> TRUE, jobs |-> [jobs EXCEPT ![id] = "queued"]]
       ELSE [ok |-> TRUE, jobs |-> jobs]

Awaiting == {"signing", "uploading", "confirming", "status", "sleep"}

\* the component in a browser (it makes no use of EventSource), no file added yet
MUInit ==
  /\ items = <<>>
  /\ runs = <<>>
  /\ job = [i \in 1..MaxItems |-> "none"]
  /\ sse = <<>>
  /\ env \in {e \in HookEnvs : e.window /\ e.eventSource}
  /\ HookIdle
  /\ CrawlIdle
  /\ ToolsIdle
  /\ ExtIdle

\* addFiles(list) with a non-empty list, from the file input or a drop
addFiles ==
  \E n \in 1..(MaxItems - Len(items)) :
    /\ items' = items \o [k \in 1..n |-> NewFileState]
    /\ UNCHANGED <<runs, job, sse, env, notMU>>

\* a click on "Start Uploads" (enabled while canStart): startAll up to its first
\* await; limit bounds the number of clicks
Click(limit) ==
  /\ canStart(items)
  /\ Len(runs) < limit
  /\ IF ~env.apiBase
     THEN UNCHANGED <<items, runs>>
     ELSE LET new == [snap |-> [i \in DOMAIN items |-> items[i].stage],
                      idx |-> 0, pc |-> "end", started |-> {}]
              go == loop(new, items, 1)
          IN  /\ runs' = Append(runs, go.run)
              /\ items' = go.items
  /\ UNCHANGED <<job, sse, env, notMU>>

startAll == Click(MaxRuns)

startBatch == Click(MaxBatches)

\* the presign fetch settles: ask.ok with url and s3_uri, or anything else
PresignResponse ==
  \E r \in DOMAIN runs, ok \in BOOLEAN :
    /\ runs[r].pc = "signing"
    /\ LET go == IF ok
                 THEN [run |-> [runs[r] EXCEPT !.pc = "uploading"],
                       items |-> patch(items, runs[r].idx, [stage |-> "uploading"])]
                 ELSE failed(runs[r], items)
       IN  /\ runs' = [runs EXCEPT ![r] = go.run]
           /\ items' = go.items
    /\ UNCHANGED <<job, sse, env, notMU>>

\* putWithProgress settles: resolved on a 2xx, rejected otherwise
PutResult ==
  \E r \in DOMAIN runs, ok \in BOOLEAN :
    /\ runs[r].pc = "uploading"
    /\ LET go == IF ok
                 THEN [run |-> [runs[r] EXCEPT !.pc = "confirming"],
                       items |-> patch(items, runs[r].idx, [stage |-> "confirming"])]
                 ELSE failed(runs[r], items)
       IN  /\ runs' = [runs EXCEPT ![r] = go.run]
           /\ items' = go.items
    /\ UNCHANGED <<job, sse, env, notMU>>

\* the confirm fetch settles (polling component): on confirm.ok the item is
\* patched to processing and pollStatusUntilDone sends its first status GET
ConfirmResponse ==
  \E r \in DOMAIN runs, reached \in BOOLEAN :
    /\ runs[r].pc = "confirming"
    /\ LET id == runs[r].idx
           ans == IF reached THEN confirm_upload(job, id) ELSE [ok |-> FALSE, jobs |-> job]
           go == IF ans.ok
                 THEN [run |-> [runs[r] EXCEPT !.pc = "status"],
                       items |-> patch(items, id,
                                   [stage |-> "processing", jobStatus |-> "processing"])]
                 ELSE failed(runs[r], items)
       IN  /\ runs' = [runs EXCEPT ![r] = go.run]
           /\ items' = go.items
           /\ job' = ans.jobs
    /\ UNCHANGED <<sse, env, notMU>>

\* pollStatusUntilDone: the status GET settles, with the job's snapshot or a failure
StatusResponse ==
  \E r \in DOMAIN runs, okRes \in BOOLEAN :
    /\ runs[r].pc = "status"
    /\ LET id == runs[r].idx
           st == job[id]
           go == IF okRes /\ st # "none"
                 THEN IF st \in TerminalStatus
                      THEN resume(runs[r], patch(items, id, [jobStatus |-> st, stage |-> st]))
                      ELSE [run |-> [runs[r] EXCEPT !.pc = "sleep"],
                            items |-> patch(items, id, [jobStatus |-> st])]
                 ELSE [run |-> [runs[r] EXCEPT !.pc = "sleep"], items |-> items]
       IN  /\ runs' = [runs EXCEPT ![r] = go.run]
           /\ items' = go.items
    /\ UNCHANGED <<job, sse, env, notMU>>

\* the 1200 ms timeout of a polling loop fires and the next status GET is sent
SleepDone ==
  \E r \in DOMAIN runs :
    /\ runs[r].pc = "sleep"
    /\ runs' = [runs EXCEPT ![r].pc = "status"]
    /\ UNCHANGED <<items, job, sse, env, notMU>>

\* server side: an ingestion job goes queued -> processing -> done | error
ServerAdvance ==
  \E i \in DOMAIN items, to \in JobStatus :
    /\ \/ job[i] = "queued" /\ to = "processing"
       \/ job[i] = "processing" /\ to \in TerminalStatus
    /\ job' = [job EXCEPT ![i] = to]
    /\ UNCHANGED <<items, runs, sse, env, notMU>>

MUNext ==
  \/ addFiles
  \/ startAll
  \/ PresignResponse
  \/ PutResult
  \/ ConfirmResponse
  \/ StatusResponse
  \/ SleepDone
  \/ ServerAdvance

SpecMU == MUInit /\ [][MUNext]_vars

BatchNext ==
  \/ addFiles
  \/ startBatch
  \/ PresignResponse
  \/ PutResult
  \/ ConfirmResponse
  \/ StatusResponse
  \/ SleepDone
  \/ ServerAdvance

\* a status GET of a polling loop is answered with a terminal job status
StatusSettled ==
  /\ StatusResponse
  /\ \E r \in DOMAIN runs : runs[r].pc = "status" /\ runs'[r].pc \notin {"status", "sleep"}

\* the polling component with Start Uploads pressed at most MaxBatches times.
\* Every awaited fetch and timeout settles, the server works on a scheduled job
\* until it is done or failed, and the status endpoint does not fail for ever.
SpecBatch ==
  /\ MUInit
  /\ [][BatchNext]_vars
  /\ WF_vars(PresignResponse)
  /\ WF_vars(PutResult)
  /\ WF_vars(ConfirmResponse)
  /\ WF_vars(SleepDone)
  /\ WF_vars(ServerAdvance)
  /\ SF_vars(StatusSettled)

(***************************************************************************)
(* The SSE variant of MultiUploaderWithStatus: after the confirm call      *)
(* processOne binds a fresh useSSEJob instance to the item and, when the   *)
(* browser supports EventSource, starts it and returns; otherwise it polls.*)
(***************************************************************************)
\* what the server may push on the stream of a job (or a client may fail to
\* parse): the job's current snapshot, an error frame, a keep-alive
StreamPayloads(status) ==
  (IF status = "none" THEN {} ELSE {[ok |-> TRUE, job |-> status]})
    \cup {[ok |-> FALSE, job |-> "none"], Garbage}

\* the handler useSSEJobInstance passes to useSSEJob: the item's onUpdate patches
\* the item when u.ok && u.job; then a terminal status stops the instance
OnItemUpdate(its, inst, u) ==
  [items |-> IF u.ok /\ u.job # "none"
             THEN patch(its, inst.item, [jobStatus |-> u.job, stage |-> StageOf(u.job)])
             ELSE its,
   inst |-> IF u.ok /\ u.job \in TerminalStatus
            THEN [inst EXCEPT !.h = stop(inst.h)]
            ELSE inst]

SSEInit ==
  /\ items = <<>>
  /\ runs = <<>>
  /\ job = [i \in 1..MaxItems |-> "none"]
  /\ sse = <<>>
  /\ env \in {e \in HookEnvs : e.window /\ e.apiBase}
  /\ HookIdle
  /\ CrawlIdle
  /\ ToolsIdle
  /\ ExtIdle

\* the confirm fetch settles (SSE variant)
ConfirmResponseSSE ==
  \E r \in DOMAIN runs, reached \in BOOLEAN :
    /\ runs[r].pc = "confirming"
    /\ LET id == runs[r].idx
           ans == IF reached THEN confirm_upload(job, id) ELSE [ok |-> FALSE, jobs |-> job]
           inst == [item |-> id, h |-> start(NewHook, "job", env), errored |-> FALSE]
           go == IF ~ans.ok THEN failed(runs[r], items)
                 ELSE IF supported(env) THEN resume(runs[r], items)
                 ELSE [run |-> [runs[r] EXCEPT !.pc = "status"],
                       items |-> patch(items, id,
                                   [stage |-> "processing", jobStatus |-> "processing"])]
       IN  /\ runs' = [runs EXCEPT ![r] = go.run]
           /\ items' = go.items
           /\ job' = ans.jobs
           /\ sse' = IF ans.ok /\ supported(env) THEN Append(sse, inst) ELSE sse
    /\ UNCHANGED <<env, notMU>>

\* the fallback polling loop of processOne: the status GET settles
FallbackStatusResponse ==
  \E r \in DOMAIN runs, okRes \in BOOLEAN :
    /\ runs[r].pc = "status"
    /\ LET id == runs[r].idx
           st == job[id]
           its == patch(items, id, [jobStatus |-> st, stage |-> StageOf(st)])
           go == IF okRes /\ st # "none"
                 THEN IF st \in TerminalStatus
                      THEN resume(runs[r], its)
                      ELSE [run |-> [runs[r] EXCEPT !.pc = "sleep"], items |-> its]
                 ELSE [run |-> [runs[r] EXCEPT !.pc = "sleep"], items |-> items]
       IN  /\ runs' = [runs EXCEPT ![r] = go.run]
           /\ items' = go.items
    /\ UNCHANGED <<job, sse, env, notMU>>

\* an "update" event arrives on the open EventSource of an item's instance
SseUpdate ==
  \E k \in DOMAIN sse :
    \E c \in OpenConns(sse[k].h), data \in StreamPayloads(job[sse[k].item]) :
      /\ LET go == IF data = Garbage THEN [items |-> items, inst |-> sse[k]]
                   ELSE OnItemUpdate(items, sse[k], data)
         IN  /\ items' = go.items
             /\ sse' = [sse EXCEPT ![k] = go.inst]
      /\ UNCHANGED <<runs, job, env, notMU>>

\* a transport error on the open EventSource of an item's instance: es.onerror
SseError ==
  \E k \in DOMAIN sse :
    \E c \in OpenConns(sse[k].h) :
      /\ sse' = [sse EXCEPT ![k].h = onerror(sse[k].h), ![k].errored = TRUE]
      /\ UNCHANGED <<items, runs, job, env, notMU>>

SSENext ==
  \/ addFiles
  \/ startAll
  \/ PresignResponse
  \/ PutResult
  \/ ConfirmResponseSSE
  \/ FallbackStatusResponse
  \/ SleepDone
  \/ ServerAdvance
  \/ SseUpdate
  \/ SseError

SpecSSE == SSEInit /\ [][SSENext]_vars


(***************************************************************************)
(* CrawlUploadWithStatus (second component of MultiUploader.tsx).  The     *)
(* component calls useSSEJob in its body, so every render makes a fresh    *)
(* hook instance with fresh start and stop functions; these are            *)
(* dependencies of the effect, so every render with a jobId runs the       *)
(* effect's cleanup and then the effect again.  A job id is the number of  *)
(* the run() that confirmed it (each run draws a fresh external id).       *)
(***************************************************************************)
\* a handle for a new interval: one that no live interval or ref holds
NewHandle(fx) ==
  Min({n \in 1..(Cardinality(fx.intervals) + 2) :
         n # fx.pollTimer /\ \A t \in fx.intervals : t.handle # n})

\* window.clearInterval(handle)
clearInterval(fx, handle) ==
  [fx EXCEPT !.intervals = {t \in fx.intervals : t.handle # handle}]

\* poll(), up to its await: the status GET for the effect's jobId is sent
poll(fx, jobId) == [fx EXCEPT !.gets = Append(@, [id |-> jobId, res |-> "sent"])]

\* the cleanup the last effect run returned, run before the next effect run
Cleanup(fx) ==
  IF fx.cleanup = "stop" THEN [fx EXCEPT !.hook.h = stop(fx.hook.h)]
  ELSE IF fx.cleanup = "clearInterval" /\ fx.pollTimer # 0
       THEN clearInterval(fx, fx.pollTimer)
       ELSE fx

\* the effect body on a render with this jobId, with the hook instance of that
\* render: nothing without a jobId; start() when supported; else poll() at once
\* and every 1200 ms
Effect(fx, jobId, e) ==
  LET inst == [id |-> jobId, h |-> NewHook]
  IN  IF jobId = 0 THEN [fx EXCEPT !.hook = inst, !.cleanup = "none"]
      ELSE IF supported(e)
      THEN [fx EXCEPT !.hook = [inst EXCEPT !.h = start(NewHook, "job", e)],
                      !.cleanup = "stop"]
      ELSE LET sent == poll(fx, jobId)
               h == NewHandle(sent)
           IN  [sent EXCEPT !.hook = inst, !.cleanup = "clearInterval",
                            !.pollTimer = h,
                            !.intervals = @ \cup {[handle |-> h, id |-> jobId]}]

\* a render is committed: cleanup of the previous effect, then the effect again
Render(fx, jobId, e) == Effect(Cleanup(fx), jobId, e)

\* a handler has set React state to st; rendered says whether React re-renders
Commit(st, fx, rendered) ==
  /\ crawl' = st
  /\ crawlFx' = IF rendered THEN Render(fx, st.jobId, env) ELSE fx
  /\ Len(crawlFx'.gets) <= MaxGets

CrawlInit ==
  /\ env \in {e \in HookEnvs : e.window}
  /\ HookIdle
  /\ MUIdle
  /\ CrawlIdle
  /\ ToolsIdle
  /\ ExtIdle

\* the user picks a file: setFile(e.target.files?.[0] || null)
pickFile ==
  /\ Commit([crawl EXCEPT !.file = TRUE], crawlFx, TRUE)
  /\ UNCHANGED <<crawlRuns, crawlJobs, crawlSeen, env, notCrawl>>

\* a click on Upload: run() up to its first await
run ==
  /\ IF ~crawl.file
     THEN /\ Commit([crawl EXCEPT !.msg = "Pick a file first."], crawlFx,
                    crawl.msg # "Pick a file first.")
          /\ UNCHANGED crawlRuns
     ELSE /\ Len(crawlRuns) < MaxCrawlRuns
          /\ Commit([crawl EXCEPT !.msg = "Presigning"], crawlFx, crawl.msg # "Presigning")
          /\ crawlRuns' = Append(crawlRuns, "signing")
  /\ UNCHANGED <<crawlJobs, crawlSeen, env, notCrawl>>

\* an awaited fetch of run() settles: "ok", a response that is not ok, or a
\* rejection, which ends run() where it stands
RunStep(r, from, outcome, okMsg, okPc, failMsg) ==
  /\ crawlRuns[r] = from
  /\ IF outcome = "ok"
     THEN /\ Commit([crawl EXCEPT !.msg = okMsg], crawlFx, crawl.msg # okMsg)
          /\ crawlRuns' = [crawlRuns EXCEPT ![r] = okPc]
     ELSE /\ IF outcome = "notok"
             THEN Commit([crawl EXCEPT !.msg = failMsg], crawlFx, crawl.msg # failMsg)
             ELSE Commit(crawl, crawlFx, FALSE)
          /\ crawlRuns' = [crawlRuns EXCEPT ![r] = "end"]

RunOutcome == {"ok", "notok", "throws"}

CrawlPresignResponse ==
  \E r \in DOMAIN crawlRuns, outcome \in RunOutcome :
    /\ RunStep(r, "signing", outcome, "Uploading", "uploading", "Presign failed")
    /\ UNCHANGED <<crawlJobs, crawlSeen, env, notCrawl>>

CrawlPutResult ==
  \E r \in DOMAIN crawlRuns, outcome \in RunOutcome :
    /\ RunStep(r, "uploading", outcome, "Confirming (job started)", "confirming",
               "S3 PUT failed")
    /\ UNCHANGED <<crawlJobs, crawlSeen, env, notCrawl>>

\* the confirm fetch settles; on confirm.ok: setJobId(confirm.job_id) and setMsg
CrawlConfirmResponse ==
  \E r \in DOMAIN crawlRuns, outcome \in RunOutcome :
    /\ crawlRuns[r] = "confirming"
    /\ IF outcome = "ok"
       THEN /\ Commit([crawl EXCEPT !.jobId = r, !.msg = "Processing on server"],
                      crawlFx, TRUE)
            /\ crawlJobs' = [crawlJobs EXCEPT ![r] = "queued"]
       ELSE /\ IF outcome = "notok"
               THEN Commit([crawl EXCEPT !.msg = "Confirm failed"], crawlFx,
                           crawl.msg # "Confirm failed")
               ELSE Commit(crawl, crawlFx, FALSE)
            /\ UNCHANGED crawlJobs
    /\ crawlRuns' = [crawlRuns EXCEPT ![r] = "end"]
    /\ UNCHANGED <<crawlSeen, env, notCrawl>>

\* an "update" event on the open EventSource of the current hook instance: the
\* component's onUpdate does setJob and, on a terminal status, stop()
CrawlSseUpdate ==
  \E c \in OpenConns(crawlFx.hook.h) :
  \E u \in StreamPayloads(crawlJobs[crawlFx.hook.id]) :
    /\ IF u # Garbage /\ u.ok /\ u.job # "none"
       THEN /\ Commit([crawl EXCEPT !.job = u.job],
                      IF u.job \in TerminalStatus
                      THEN [crawlFx EXCEPT !.hook.h = stop(@)] ELSE crawlFx,
                      TRUE)
            /\ crawlSeen' =
                 [shown |-> crawlFx.hook.id,
                  terminal |-> IF u.job \in TerminalStatus
                               THEN crawlSeen.terminal \cup {crawlFx.hook.id}
                               ELSE crawlSeen.terminal]
       ELSE /\ Commit(crawl, crawlFx, FALSE)
            /\ UNCHANGED crawlSeen
    /\ UNCHANGED <<crawlRuns, crawlJobs, env, notCrawl>>

\* a transport error on the open EventSource of the current hook instance
CrawlSseError ==
  \E c \in OpenConns(crawlFx.hook.h) :
    /\ crawlFx' = [crawlFx EXCEPT !.hook.h = onerror(@)]
    /\ UNCHANGED <<crawl, crawlRuns, crawlJobs, crawlSeen, env, notCrawl>>

\* a live interval fires: poll() of the effect that set it
IntervalTick ==
  \E t \in crawlFx.intervals :
    /\ Commit(crawl, poll(crawlFx, t.id), FALSE)
    /\ UNCHANGED <<crawlRuns, crawlJobs, crawlSeen, env, notCrawl>>

\* server side: a status GET is answered with the job's snapshot of that moment
ServeStatus ==
  \E g \in DOMAIN crawlFx.gets :
    /\ crawlFx.gets[g].res = "sent"
    /\ crawlFx' = [crawlFx EXCEPT !.gets[g].res = crawlJobs[crawlFx.gets[g].id]]
    /\ UNCHANGED <<crawl, crawlRuns, crawlJobs, crawlSeen, env, notCrawl>>

Without(seq, g) == [k \in 1..(Len(seq) - 1) |-> IF k < g THEN seq[k] ELSE seq[k + 1]]

\* a status GET settles, in any order: r.ok with the job, or a failure (r null);
\* on r.ok: setJob(r.job), and a terminal status clears the interval of the ref
PollResponse ==
  \E g \in DOMAIN crawlFx.gets, okRes \in BOOLEAN :
    LET get == crawlFx.gets[g]
        rest == [crawlFx EXCEPT !.gets = Without(@, g)]
    IN  /\ okRes => get.res \in JobStatus
        /\ IF okRes
           THEN /\ Commit([crawl EXCEPT !.job = get.res],
                          IF get.res \in TerminalStatus
                          THEN [(IF rest.pollTimer # 0
                                 THEN clearInterval(rest, rest.pollTimer)
                                 ELSE rest) EXCEPT !.pollTimer = 0]
                          ELSE rest,
                          TRUE)
                /\ crawlSeen' = [crawlSeen EXCEPT !.shown = get.id]
           ELSE /\ Commit(crawl, rest, FALSE)
                /\ UNCHANGED crawlSeen
        /\ UNCHANGED <<crawlRuns, crawlJobs, env, notCrawl>>

\* server side: the job of a confirmed upload goes queued -> processing -> done | error
CrawlServerAdvance ==
  \E r \in DOMAIN crawlRuns, to \in JobStatus :
    /\ \/ crawlJobs[r] = "queued" /\ to = "processing"
       \/ crawlJobs[r] = "processing" /\ to \in TerminalStatus
    /\ crawlJobs' = [crawlJobs EXCEPT ![r] = to]
    /\ UNCHANGED <<crawl, crawlFx, crawlRuns, crawlSeen, env, notCrawl>>

CrawlNext ==
  \/ pickFile
  \/ run
  \/ CrawlPresignResponse
  \/ CrawlPutResult
  \/ CrawlConfirmResponse
  \/ CrawlSseUpdate
  \/ CrawlSseError
  \/ IntervalTick
  \/ ServeStatus
  \/ PollResponse
  \/ CrawlServerAdvance

SpecCrawl == CrawlInit /\ [][CrawlNext]_vars


(***************************************************************************)
(* Claims about the multi-file widget.                                     *)
(***************************************************************************)
InPipeline == {i \in DOMAIN items : items[i].stage \in {"signing", "uploading", "confirming"}}

\* C1: at most one item of a widget instance is in the signing, uploading or
\* confirming stage at any time, whatever the user adds or presses.
C1_OnePipelineInFlight == Cardinality(InPipeline) <= 1

\* startAll has called processOne for every item that was queued or errored in
\* the items it iterates and lies at or before its loop position (all of them,
\* once the loop has ended), and none of them is still queued when it has ended
StartedAllSoFar ==
  \A r \in DOMAIN runs :
    \A j \in DOMAIN runs[r].snap :
      (runs[r].snap[j] \in {"queued", "error"} /\ j <= runs[r].idx)
        => /\ j \in runs[r].started
           /\ runs[r].pc = "end" => items[j].stage # "queued"

C3_DoneNotRestarted ==
  [][\A i \in DOMAIN items : items[i].stage = "done" => items'[i].stage = "done"]_vars

\* the stage changes the per-item state machine allows
StageChain ==
  {<<"queued", "signing">>, <<"signing", "uploading">>, <<"uploading", "confirming">>,
   <<"confirming", "processing">>, <<"processing", "done">>}

AllowedStageStep(a, b) ==
  \/ a = b
  \/ <<a, b>> \in StageChain
  \/ b = "error" /\ a \in {"signing", "uploading", "confirming", "processing"}

\* the startAll invocations that called processOne for item i
RunsOf(rs, i) == {r \in DOMAIN rs : i \in rs[r].started}

\* C4: during one processing run of an item (a single processOne call works on
\* it) its stage changes only along queued, signing, uploading, confirming,
\* processing, done, or from one of the four middle stages to error; done is
\* entered only from processing.
C4_StageOrder ==
  [][\A i \in DOMAIN items :
       Cardinality(RunsOf(runs', i)) <= 1
         => AllowedStageStep(items[i].stage, items'[i].stage)]_vars

\* nothing is in progress for item i: no startAll awaits a step of it and no
\* EventSource for it is open
Quiet(i) ==
  /\ \A r \in DOMAIN runs : ~(runs[r].pc \in Awaiting /\ runs[r].idx = i)
  /\ \A k \in DOMAIN sse : sse[k].item = i => OpenConns(sse[k].h) = {}

\* C5: after a transport error on an item's stream the item's job status is
\* obtained by polling, so once its server job is terminal and nothing is in
\* progress for the item any more, the item is done or error.
C5_PollingAfterStreamError ==
  \A k \in DOMAIN sse :
    (sse[k].errored /\ job[sse[k].item] \in TerminalStatus /\ Quiet(sse[k].item))
      => items[sse[k].item].stage \in {"done", "error"}

(***************************************************************************)
(* Claims about the job-status hook.                                       *)
(***************************************************************************)
\* C6: at most one push-stream connection opened by a hook instance is open at
\* any time, also when start is called again without a stop in between.
C6_AtMostOneOpen == Cardinality(OpenConns(hook)) <= 1

\* C10: a call of stop leaves no connection of the hook instance open, and a
\* call of stop with no connection open changes nothing.
C10_StopClosesAll ==
  [][HookStop => /\ OpenConns(hook') = {}
                 /\ (OpenConns(hook) = {} => hook' = [hook EXCEPT !.es = 0])]_vars

(***************************************************************************)
(* Claims about the single-file widget.                                    *)
(***************************************************************************)
\* C7: once an update with status done or error has been delivered for a job,
\* no push-stream connection to that job's stream is open: the connection is
\* closed and none is opened again, also not by the re-render the update causes.
C7_NoStreamAfterTerminal ==
  \A id \in crawlSeen.terminal :
    ~(crawlFx.hook.id = id /\ OpenConns(crawlFx.hook.h) # {})

\* the status GETs for a job that are outstanding
Outstanding(id) == {g \in DOMAIN crawlFx.gets : crawlFx.gets[g].id = id}

\* C8: the polling fallback issues status requests for a job one at a time: no
\* status GET is sent while another one for the same job is outstanding.
C8_OneStatusGetAtATime ==
  \A id \in 1..MaxCrawlRuns : Cardinality(Outstanding(id)) <= 1

\* C9: once the status the widget displays for a job is done or error, it never
\* changes again, in whatever order status responses and stream updates arrive.
C9_TerminalStatusStays ==
  [][(crawl.job \in TerminalStatus /\ crawlSeen'.shown = crawlSeen.shown)
       => crawl'.job = crawl.job]_vars

(***************************************************************************)
(* The bake-and-verify scripts auto-fix-and-doctor.ps1,                    *)
(* redeploy-and-verify.ps1 and the step-1 fixer (unnamed/part_007): patch  *)
(* main.js, build, verify the largest built script, and (the first two)    *)
(* verify the deployed site, polling it after a deploy.  A built or        *)
(* deployed script is the set of texts it contains that a check looks      *)
(* for: "host", the backend host name; "rel", a relative fetch('/api or    *)
(* fetch("/api call; "psHost", the text PowerShell's host object converts  *)
(* to.  Time is counted in sleeps of the polling loop.                     *)
(***************************************************************************)
BakeScripts == {"auto-fix-and-doctor", "redeploy-and-verify", "part_007"}

Markers == {"host", "rel", "psHost"}

\* what a request for the deployed site's module script yields: the request
\* fails, index.html names no module script, or the script with its texts
FetchFail == {"request failed"}

NoScript == {"no module script"}

DeployedOutcomes == {FetchFail, NoScript} \cup SUBSET Markers

\* $js -match <escaped host>.  auto-fix-and-doctor keeps the host in
\* $backendHost.  The other two assign it to $host, PowerShell's read-only
\* automatic variable: the assignment fails, the script goes on, and the
\* pattern is the text of the host object
hasHost(script, js) ==
  IF script = "auto-fix-and-doctor" THEN "host" \in js ELSE "psHost" \in js

\* $js -match "fetch\((\s*['""])\s*/api"
hasRel(js) == "rel" \in js

\* exit <code>, also through Fail (exit 1); why and msg record what ended the run
Exit(b, code, why, msg) ==
  [b EXCEPT !.pc = "end", !.exit = code, !.why = why, !.msg = msg]

\* Verify-Deployed of auto-fix-and-doctor: returns 0 or 2; 1 where it calls Fail,
\* which ends the script with exit 1
VerifyDeployed(out) ==
  IF out \in {FetchFail, NoScript} THEN 1
  ELSE IF hasHost("auto-fix-and-doctor", out) /\ ~hasRel(out) THEN 0 ELSE 2

BakeInit ==
  /\ \E sc \in BakeScripts, st \in BOOLEAN, hk \in BOOLEAN, w \in 0..MaxWait :
       /\ sc # "auto-fix-and-doctor" => (st = (sc = "redeploy-and-verify") /\ ~hk)
       /\ sc = "part_007" => w = 0
       /\ bake = [script |-> sc, pc |-> "main", exit |-> -1, why |-> "", msg |-> "",
                  site |-> st, hook |-> hk, wait |-> w,
                  lastExit |-> 0, js |-> {}, exitCode |-> 0,
                  clock |-> 0, seen |-> FALSE, polls |-> 0, passed |-> FALSE]
  /\ env = [apiBase |-> FALSE, window |-> FALSE, eventSource |-> FALSE]
  /\ HookIdle
  /\ MUIdle
  /\ CrawlIdle
  /\ DoctorIdle
  /\ RetryIdle
  /\ BaseIdle
  /\ CallIdle
  /\ LocalIdle
  /\ ExtIdle

\* the frontend folder (part_007) and src/main.js exist, or Fail
BakeCheckMain ==
  \E found \in BOOLEAN :
    /\ bake.pc = "main"
    /\ bake' = IF found THEN [bake EXCEPT !.pc = "build"]
               ELSE Exit(bake, 1, "missing file", "main.js not found")
    /\ UNCHANGED <<doctor, retry, base, call, localDoctor, notTools>>

\* main.js is patched; npm install and npm run build run inside try: a command
\* that cannot be started is caught and Fails, an exit code only sets $LASTEXITCODE
BakeBuild ==
  \E thrown \in BOOLEAN, code \in {0, 1} :
    /\ bake.pc = "build"
    /\ bake' = IF thrown
               THEN Exit(bake, 1, "build failed", "Local build failed")
               ELSE [bake EXCEPT !.pc = "verify", !.lastExit = code]
    /\ UNCHANGED <<doctor, retry, base, call, localDoctor, notTools>>

\* the local verification of the largest .js under dist/assets
BakeVerifyLocal ==
  \E assets \in BOOLEAN, built \in BOOLEAN, js \in SUBSET Markers :
    /\ bake.pc = "verify"
    /\ ~built => js = {}
    /\ LET b == [bake EXCEPT !.js = js]
       IN  bake' =
             IF ~assets THEN Exit(bake, 1, "build failed", "Build output not found")
             ELSE IF ~built THEN Exit(bake, 1, "build failed", "No built JS found")
             ELSE IF bake.script = "auto-fix-and-doctor"
             THEN IF hasHost(bake.script, js) /\ ~hasRel(js)
                  THEN IF bake.site THEN [b EXCEPT !.pc = "deployed"]
                       ELSE Exit(b, 0, "success", "Baked OK")
                  ELSE Exit(b, 2, "local bundle", "Local bundle needs fix")
             ELSE IF hasHost(bake.script, js)
             THEN IF bake.script = "redeploy-and-verify"
                  THEN [b EXCEPT !.pc = "poll"]
                  ELSE Exit(b, 0, "success", "Done.")
             ELSE Exit(b, 1, "local bundle", "missing baked host")
    /\ UNCHANGED <<doctor, retry, base, call, localDoctor, notTools>>

\* auto-fix-and-doctor with -Site: $exitCode = Verify-Deployed; without a deploy
\* hook the script then ends with exit $exitCode
BakeVerifyDeployed ==
  \E out \in DeployedOutcomes :
    /\ bake.pc = "deployed"
    /\ LET code == VerifyDeployed(out)
       IN  bake' =
             IF code = 1
             THEN Exit(bake, 1, "site unreachable", "Fetch deployed bundle failed")
             ELSE IF bake.hook THEN [bake EXCEPT !.pc = "poll", !.exitCode = code]
             ELSE Exit([bake EXCEPT !.exitCode = code], code,
                       IF code = 0 THEN "success" ELSE "deployed bundle",
                       IF code = 0 THEN "Deployed OK" ELSE "Deployed bundle needs fix")
    /\ UNCHANGED <<doctor, retry, base, call, localDoctor, notTools>>

\* one pass of the do ... while of auto-fix-and-doctor: sleep, check, and break
\* when $LASTEXITCODE or $exitCode is 0; the loop goes on while the deadline
\* has not passed
PollAutoFix(b, out, dt) ==
  LET code == VerifyDeployed(out)
      c == [b EXCEPT !.clock = @ + dt, !.polls = @ + 1]
  IN  IF code = 1
      THEN Exit(c, 1, "site unreachable", "Fetch deployed bundle failed")
      ELSE LET d == [c EXCEPT !.exitCode = code, !.passed = @ \/ code = 0]
           IN  IF b.lastExit = 0 \/ code = 0
               THEN [d EXCEPT !.pc = "verdict", !.msg = "Deployed bundle looks good."]
               ELSE IF d.clock < d.wait THEN d
               ELSE [d EXCEPT !.pc = "verdict"]

\* one pass of the while of redeploy-and-verify: entered while the deadline has
\* not passed and the host was not seen; a check, then one sleep, or two when a
\* request failed
PollRedeploy(b, out, dt) ==
  IF ~(b.clock < b.wait /\ ~b.seen) THEN [b EXCEPT !.pc = "verdict"]
  ELSE LET c == [b EXCEPT !.polls = @ + 1]
       IN  IF out = FetchFail THEN [c EXCEPT !.clock = @ + dt + 1]
           ELSE IF out # NoScript /\ hasHost("redeploy-and-verify", out)
           THEN [c EXCEPT !.seen = TRUE, !.passed = TRUE, !.pc = "verdict"]
           ELSE [c EXCEPT !.clock = @ + dt]

BakePoll ==
  \E out \in DeployedOutcomes, dt \in 1..2 :
    /\ bake.pc = "poll"
    /\ bake' = IF bake.script = "auto-fix-and-doctor"
               THEN PollAutoFix(bake, out, dt)
               ELSE PollRedeploy(bake, out, dt)
    /\ UNCHANGED <<doctor, retry, base, call, localDoctor, notTools>>

\* after the loop: success, or Fail with the advice to clear the build cache
BakeVerdict ==
  /\ bake.pc = "verdict"
  /\ LET good == IF bake.script = "auto-fix-and-doctor"
                 THEN bake.exitCode = 0 ELSE bake.seen
     IN  bake' = IF good THEN Exit(bake, 0, "success", "All good")
                 ELSE Exit(bake, 1, "deployed bundle", "Clear build cache")
  /\ UNCHANGED <<doctor, retry, base, call, localDoctor, notTools>>

BakeNext ==
  \/ BakeCheckMain
  \/ BakeBuild
  \/ BakeVerifyLocal
  \/ BakeVerifyDeployed
  \/ BakePoll
  \/ BakeVerdict

SpecBake == BakeInit /\ [][BakeNext]_vars

(***************************************************************************)
(* Claims about the bake-and-verify scripts.                               *)
(***************************************************************************)
\* C11: a bake-and-verify script ends with exit code 0 only if the largest
\* built script contains the backend host name and no relative fetch('/api or
\* fetch("/api call.
C11_ExitZeroOnlyIfBaked ==
  bake.exit = 0 => ("host" \in bake.js /\ "rel" \notin bake.js)

\* C12: a script whose run completed but whose verification failed (built or
\* deployed bundle without the backend host or not clean) ends with exit code
\* 2; with 1 for a missing file or a failed local build; with 0 only on success.
C12_ExitCodeByKind ==
  bake.pc = "end" =>
    /\ bake.why \in {"local bundle", "deployed bundle"} => bake.exit = 2
    /\ bake.why \in {"missing file", "build failed"} => bake.exit = 1
    /\ bake.exit = 0 <=> bake.why = "success"

\* C13: the polling loop is left only when a check passed or the wait has
\* elapsed; success is reported if and only if some check passed, and otherwise
\* the script fails with the advice to clear the build cache.
C13_PollUntilPassOrTimeout ==
  /\ bake.pc = "verdict" =>
       /\ bake.passed \/ bake.clock >= bake.wait
       /\ bake.msg = "Deployed bundle looks good." => bake.passed
  /\ (bake.pc = "end" /\ bake.polls > 0) =>
       /\ bake.exit = 0 <=> bake.passed
       /\ ~bake.passed => bake.msg = "Clear build cache"

(***************************************************************************)
(* The frontend doctor scripts: the second script of doctor.ps1, the       *)
(* second script of verify-backend.ps1, and unnamed/part_042.  Each makes  *)
(* a CORS preflight and a cross-origin GET against the backend, locates    *)
(* the deployed bundle, inspects it, and prints a final guidance.  A       *)
(* header value is "" (absent), "site" (the deployed site's origin),       *)
(* "other" (another origin), "site.evil" (another origin that has the      *)
(* site's origin as a prefix) or "*".                                      *)
(***************************************************************************)
DoctorScripts == {"doctor.ps1", "verify-backend.ps1", "part_042"}

AcaoValues == {"", "site", "other", "site.evil", "*"}

\* Invoke-WebRequest throws on a failed request or a non-success status
HttpOutcomes == {"throws", "200", "204"}

\* $acao -match $Site: an unanchored regular-expression search for the site's
\* origin in the header value
MatchesSite(acao) == acao \in {"site", "site.evil"}

\* the argument of Show / the test before Pass for the preflight
PreflightOk(script, status, acao) ==
  IF script = "doctor.ps1" THEN status = "200" /\ acao # ""
  ELSE status = "200" /\ MatchesSite(acao)

\* the same for the GET with Origin
GetOk(script, status, acao, body) ==
  IF script = "doctor.ps1" THEN status = "200" /\ body
  ELSE status = "200" /\ MatchesSite(acao) /\ body

\* the pattern for a relative call: verify-backend.ps1 searches fetch\(\s*'/?api/
\* (single quote only), the others accept either quote
usesRelative(script, js) ==
  IF script = "verify-backend.ps1" THEN "rel'" \in js
  ELSE js \cap {"rel'", "rel\""} # {}

BundleTexts == SUBSET {"host", "rel'", "rel\""}

PassFail(ok) == IF ok THEN "pass" ELSE "fail"

DoctorInit ==
  /\ \E sc \in DoctorScripts, fix \in BOOLEAN :
       /\ fix => sc = "part_042"
       /\ doctor = [script |-> sc, pc |-> "preflight", autoFix |-> fix,
                    acao |-> "", js |-> {}, located |-> FALSE,
                    hasHost |-> FALSE, hasRel |-> FALSE,
                    preflight |-> "", get |-> "", locate |-> "", inspect |-> "",
                    host |-> "", norel |-> "", verdict |-> "", exit |-> -1]
  /\ env = [apiBase |-> FALSE, window |-> FALSE, eventSource |-> FALSE]
  /\ HookIdle
  /\ MUIdle
  /\ CrawlIdle
  /\ BakeIdle
  /\ RetryIdle
  /\ BaseIdle
  /\ CallIdle
  /\ LocalIdle
  /\ ExtIdle

\* 1) CORS preflight OPTIONS with the site as Origin
DoctorPreflight ==
  \E status \in HttpOutcomes, acao \in AcaoValues :
    /\ doctor.pc = "preflight"
    /\ status = "throws" => acao = ""
    /\ doctor' = [doctor EXCEPT
         !.pc = "get", !.acao = acao,
         !.preflight = PassFail(status # "throws" /\ PreflightOk(doctor.script, status, acao))]
    /\ UNCHANGED <<bake, retry, base, call, localDoctor, notTools>>

\* 2) GET with Origin
DoctorGet ==
  \E status \in HttpOutcomes, acao \in AcaoValues, body \in BOOLEAN :
    /\ doctor.pc = "get"
    /\ status = "throws" => (acao = "" /\ ~body)
    /\ doctor' = [doctor EXCEPT
         !.pc = "locate",
         !.get = PassFail(status # "throws" /\ GetOk(doctor.script, status, acao, body))]
    /\ UNCHANGED <<bake, retry, base, call, localDoctor, notTools>>

\* 3) locate the bundle from the deployed index.html
DoctorLocate ==
  \E found \in BOOLEAN :
    /\ doctor.pc = "locate"
    /\ doctor' = [doctor EXCEPT !.pc = "inspect", !.located = found,
                                !.locate = PassFail(found)]
    /\ UNCHANGED <<bake, retry, base, call, localDoctor, notTools>>

\* 4) inspect the bundle, if one was located; verify-backend.ps1 passes
\* $usesRelative itself to Show; 5) of part_042: -AutoFix without the frontend
\* folder ends the script with exit 1
DoctorInspect ==
  \E fetched \in BOOLEAN, js \in BundleTexts, front \in BOOLEAN :
    /\ doctor.pc = "inspect"
    /\ (~doctor.located \/ ~fetched) => js = {}
    /\ doctor.located \/ fetched
    /\ doctor.autoFix \/ front
    /\ LET sc == doctor.script
           hh == "host" \in js
           hr == usesRelative(sc, js)
           d == IF ~doctor.located THEN doctor
                ELSE IF ~fetched THEN [doctor EXCEPT !.inspect = "fail"]
                ELSE [doctor EXCEPT
                        !.js = js, !.hasHost = hh, !.hasRel = hr,
                        !.host = PassFail(hh),
                        !.norel = IF sc = "verify-backend.ps1" THEN PassFail(hr)
                                  ELSE PassFail(~hr)]
       IN  doctor' = IF doctor.autoFix /\ ~front
                     THEN [d EXCEPT !.pc = "end", !.exit = 1]
                     ELSE [d EXCEPT !.pc = "guidance"]
    /\ UNCHANGED <<bake, retry, base, call, localDoctor, notTools>>

\* Final guidance
DoctorGuidance ==
  /\ doctor.pc = "guidance"
  /\ doctor' = [doctor EXCEPT
       !.pc = "end", !.exit = 0,
       !.verdict = IF ~doctor.hasHost THEN "hint: set VITE_BACKEND_URL, clear build cache"
                   ELSE IF doctor.hasRel THEN "hint: use the baked env var"
                   ELSE "Looks good"]
  /\ UNCHANGED <<bake, retry, base, call, localDoctor, notTools>>

DoctorNext ==
  \/ DoctorPreflight
  \/ DoctorGet
  \/ DoctorLocate
  \/ DoctorInspect
  \/ DoctorGuidance

SpecDoctor == DoctorInit /\ [][DoctorNext]_vars

(***************************************************************************)
(* Claims about the frontend doctor scripts.                               *)
(***************************************************************************)
\* C14: when the preflight response carries an Access-Control-Allow-Origin
\* value that is another origin than the deployed site's, the preflight check
\* is reported as failed.
C14_ForeignOriginFailsPreflight ==
  (doctor.preflight # "" /\ doctor.acao \in {"other", "site.evil"})
    => doctor.preflight = "fail"

\* the checks a run has reported
Reports ==
  {doctor.preflight, doctor.get, doctor.locate, doctor.inspect, doctor.host, doctor.norel}

\* C15: the final verdict is "Looks good" only if every reported check passed,
\* and the bundle was located, contains the host and has no relative call.
C15_LooksGoodOnlyIfAllPassed ==
  doctor.verdict = "Looks good" =>
    /\ "fail" \notin Reports
    /\ doctor.located /\ "host" \in doctor.js
    /\ doctor.js \cap {"rel'", "rel\""} = {}

(***************************************************************************)
(* Invoke-WithRetry of the PowerShell clients (friday-client.ps1,          *)
(* frontend/friday-client.ps1): for ($i = 1; $i -le $Retries; $i++) with   *)
(* try { return & $Action } catch { sleep $i and go on, or throw }.        *)
(***************************************************************************)
\* what one invocation of the action does: it returns a value or throws an error
ActionOutcomes == [ok : {TRUE}, v : {"r1", "r2"}] \cup [ok : {FALSE}, v : {"e1", "e2"}]

\* the loop test $i -le $Retries
InLoop(r) == r.i <= r.N

\* the failing catch block that never gives up
catchAlwaysRetries(r, err) == [r EXCEPT !.pc = "sleep"]

\* catch { if ($i -lt $Retries) { ...; Start-Sleep $i } else { throw } }
catch(r, err) ==
  IF r.i < r.N THEN [r EXCEPT !.pc = "sleep"]
  ELSE [r EXCEPT !.pc = "thrown", !.result = err]

\* try { return & $Action } catch { ... }
try(r, out) ==
  LET called == [r EXCEPT !.hist = Append(@, out)]
  IN  IF out.ok THEN [called EXCEPT !.pc = "returned", !.result = out.v]
      ELSE catch(called, out.v)

RetryInit ==
  /\ \E n \in 1..MaxRetries :
       retry = [N |-> n, pc |-> "try", i |-> 1, hist |-> <<>>, waits |-> <<>>,
                result |-> ""]
  /\ env = [apiBase |-> FALSE, window |-> FALSE, eventSource |-> FALSE]
  /\ HookIdle
  /\ MUIdle
  /\ CrawlIdle
  /\ BakeIdle
  /\ DoctorIdle
  /\ BaseIdle
  /\ CallIdle
  /\ LocalIdle
  /\ ExtIdle

\* one pass of the loop body: the action is invoked
RetryInvoke ==
  \E out \in ActionOutcomes :
    /\ retry.pc = "try"
    /\ InLoop(retry)
    /\ retry' = try(retry, out)
    /\ UNCHANGED <<bake, doctor, base, call, localDoctor, notTools>>

\* Start-Sleep of $i seconds is over; $i++
RetrySleep ==
  /\ retry.pc = "sleep"
  /\ retry' = [retry EXCEPT !.waits = Append(@, retry.i), !.i = @ + 1, !.pc = "try"]
  /\ UNCHANGED <<bake, doctor, base, call, localDoctor, notTools>>

RetryNext == RetryInvoke \/ RetrySleep

SpecRetry == RetryInit /\ [][RetryNext]_vars

(***************************************************************************)
(* Claims about Invoke-WithRetry.                                          *)
(***************************************************************************)
\* the invocations made so far that failed
Failures == {k \in DOMAIN retry.hist : ~retry.hist[k].ok}

\* C16: with Retries = N >= 1 the action is invoked at most N times; the
\* result of the first successful invocation is returned and nothing is
\* invoked after it; the wait after the i-th failure is i for i < N; after the
\* N-th failure in a row that failure is rethrown.
C16_BoundedRetry ==
  LET calls == Len(retry.hist)
  IN  /\ calls <= retry.N
      /\ \A k \in DOMAIN retry.hist : retry.hist[k].ok => k = calls
      /\ retry.waits = [k \in 1..Len(retry.waits) |-> k]
      /\ Len(retry.waits) = IF retry.pc = "sleep" THEN Cardinality(Failures) - 1
                            ELSE IF retry.pc = "thrown" THEN retry.N - 1
                            ELSE Cardinality(Failures)
      /\ retry.pc = "returned" =>
           (retry.hist[calls].ok /\ retry.result = retry.hist[calls].v)
      /\ retry.pc = "thrown" =>
           (calls = retry.N /\ Failures = 1..retry.N
              /\ retry.result = retry.hist[retry.N].v)
      /\ retry.pc \in {"try", "sleep"} => Failures = DOMAIN retry.hist
      /\ retry.pc = "try" => retry.i <= retry.N

\* the action failed twice and then succeeded: its result was returned
C16_Witness ==
  /\ retry.pc = "returned"
  /\ Len(retry.hist) = 3
  /\ retry.waits = <<1, 2>>

(***************************************************************************)
(* The client's base-URL resolvers: the companion module src/lib/apiBase.ts*)
(* (first file of unnamed/part_016, repeated in the upload components) and *)
(* the API client module (first file of unnamed/part_013).  A string is a  *)
(* sequence of characters; the build-time environment is the sequence of   *)
(* the definitions made, in the order they were made.                      *)
(***************************************************************************)
VarNames == {"VITE_API_BASE", "NEXT_PUBLIC_API_BASE", "REACT_APP_API_BASE"}

Chars == {" ", "a"}

Strings == UNION {[1..n -> Chars] : n \in 0..MaxLen}

\* the environments: each variable defined at most once
Environments ==
  {d \in UNION {[1..n -> [name : VarNames, v : Strings]] : n \in 0..Cardinality(VarNames)} :
     \A i, j \in DOMAIN d : d[i].name = d[j].name => i = j}

\* env.NAME: the value defined for the name, or undefined
Lookup(defs, name) ==
  IF \E i \in DOMAIN defs : defs[i].name = name
  THEN [defined |-> TRUE, v |-> defs[CHOOSE i \in DOMAIN defs : defs[i].name = name].v]
  ELSE [defined |-> FALSE, v |-> <<>>]

\* JavaScript truthiness of a string or undefined
Truthy(x) == x.defined /\ x.v # <<>>

RECURSIVE trimStart(_)
trimStart(str) ==
  IF str # <<>> /\ Head(str) = " " THEN trimStart(Tail(str)) ELSE str

RECURSIVE trimEnd(_)
trimEnd(str) ==
  IF str # <<>> /\ str[Len(str)] = " " THEN trimEnd(SubSeq(str, 1, Len(str) - 1)) ELSE str

\* String.prototype.trim
trim(str) == trimEnd(trimStart(str))

Resolved(v) == [error |-> "", v |-> v]

ReferenceError == [error |-> "ReferenceError", v |-> <<>>]

\* a resolver that takes whichever variable was defined first
API_BASE_ByDefinitionOrder(b) ==
  LET set == {i \in DOMAIN b.defs : b.defs[i].v # <<>>}
  IN  IF set = {} THEN Resolved(<<>>) ELSE Resolved(b.defs[Min(set)].v)

\* src/lib/apiBase.ts: import.meta.env.VITE_API_BASE || process.env.NEXT_PUBLIC_API_BASE
\* || process.env.REACT_APP_API_BASE || "".  Reading process where no such
\* global exists throws
API_BASE(b) ==
  LET vite == Lookup(b.defs, "VITE_API_BASE")
      next == Lookup(b.defs, "NEXT_PUBLIC_API_BASE")
      react == Lookup(b.defs, "REACT_APP_API_BASE")
  IN  IF Truthy(vite) THEN Resolved(vite.v)
      ELSE IF ~b.process THEN ReferenceError
      ELSE IF Truthy(next) THEN Resolved(next.v)
      ELSE IF Truthy(react) THEN Resolved(react.v)
      ELSE Resolved(<<>>)

\* API client: const envBase = import.meta.env?.VITE_API_BASE?.trim()
envBase(b) ==
  LET vite == Lookup(b.defs, "VITE_API_BASE")
  IN  IF vite.defined THEN [defined |-> TRUE, v |-> trim(vite.v)] ELSE vite

\* (typeof window !== "undefined" && `${window.location.origin}/api`) ||
\* "http://localhost:8000/api"
defaultBase(b) ==
  IF b.window THEN <<"origin", "/api">> ELSE <<"http://localhost:8000/api">>

\* API client: export const API_BASE = envBase || defaultBase
clientAPI_BASE(b) ==
  IF Truthy(envBase(b)) THEN Resolved(envBase(b).v) ELSE Resolved(defaultBase(b))

Pending == [error |-> "pending", v |-> <<>>]

BaseInit ==
  /\ \E d \in Environments, w \in BOOLEAN, p \in BOOLEAN :
       /\ (\E i \in DOMAIN d : d[i].name # "VITE_API_BASE") => p
       /\ base = [defs |-> d, pc |-> "load", window |-> w, process |-> p,
                  companion |-> Pending, client |-> Pending]
  /\ env = [apiBase |-> FALSE, window |-> FALSE, eventSource |-> FALSE]
  /\ HookIdle
  /\ MUIdle
  /\ CrawlIdle
  /\ BakeIdle
  /\ DoctorIdle
  /\ RetryIdle
  /\ CallIdle
  /\ LocalIdle
  /\ ExtIdle

\* the companion module is evaluated
LoadApiBase ==
  /\ base.pc = "load"
  /\ base.companion = Pending
  /\ base' = [base EXCEPT !.companion = API_BASE(base)]
  /\ UNCHANGED <<bake, doctor, retry, call, localDoctor, notTools>>

\* the API client module is evaluated
LoadClient ==
  /\ base.pc = "load"
  /\ base.client = Pending
  /\ base' = [base EXCEPT !.client = clientAPI_BASE(base)]
  /\ UNCHANGED <<bake, doctor, retry, call, localDoctor, notTools>>

BaseNext == LoadApiBase \/ LoadClient

SpecBase == BaseInit /\ [][BaseNext]_vars

(***************************************************************************)
(* Claims about the base-URL resolvers.                                    *)
(***************************************************************************)
\* the variables in their fixed order of priority
Priority == <<"VITE_API_BASE", "NEXT_PUBLIC_API_BASE", "REACT_APP_API_BASE">>

NonEmpty(defs) == {k \in 1..3 : Truthy(Lookup(defs, Priority[k]))}

\* C17: the companion module resolves to the first non-empty of VITE_API_BASE,
\* NEXT_PUBLIC_API_BASE, REACT_APP_API_BASE in that order, whatever the order
\* in which they were defined: to VITE_API_BASE when all three are set.
C17_FirstNonEmptyWins ==
  (base.pc = "load" /\ base.companion # Pending /\ NonEmpty(base.defs) # {})
    => base.companion = Resolved(Lookup(base.defs, Priority[Min(NonEmpty(base.defs))]).v)

\* all three variables set to different non-empty values, VITE_API_BASE defined
\* last, and the companion module resolved
C17_Witness ==
  /\ base.pc = "load"
  /\ base.companion # Pending
  /\ Len(base.defs) = 3
  /\ base.defs[3].name = "VITE_API_BASE"
  /\ \A i, j \in 1..3 : (base.defs[i].v # <<>> /\ (i # j => base.defs[i].v # base.defs[j].v))
  /\ base.companion.v = base.defs[3].v

\* what the precedence of the design resolves to: the variable when set and
\* non-blank, else the page's origin with /api, else the local default
Precedence(b) ==
  LET vite == Lookup(b.defs, "VITE_API_BASE")
  IN  IF vite.defined /\ trim(vite.v) # <<>> THEN {vite.v, trim(vite.v)}
      ELSE {defaultBase(b)}

\* C18: every resolver follows that precedence and none resolves to an empty
\* base.
C18_SamePrecedenceNeverEmpty ==
  base.pc = "load" =>
    \A r \in {base.companion, base.client} :
      r # Pending => (r.error = "" /\ r.v # <<>> /\ r.v \in Precedence(base))

(***************************************************************************)
(* The API client helpers: health, requestUploadUrl, putToUrl,             *)
(* confirmUpload and queryRag of the API client module (unnamed/part_013), *)
(* which pass what fetch returns to ok(), and jfetch of the helper module  *)
(* (unnamed/part_016), which awaits fetch itself.                          *)
(***************************************************************************)
Helpers == {"health", "requestUploadUrl", "putToUrl", "confirmUpload", "queryRag", "jfetch"}

Statuses == {200, 204, 404, 500}

\* a Response: status, the body text, whether the body parses as JSON, whether
\* the content type says JSON
Responses ==
  [type : {"Response"}, status : Statuses, text : {"", "body"}, json : BOOLEAN,
   ct : BOOLEAN]

\* what fetch(...) returns: a promise, which has none of a Response's properties
Promise == [type |-> "Promise", status |-> 0, text |-> "", json |-> FALSE, ct |-> FALSE]

\* no response: the request failed
NetworkError == [type |-> "NetworkError", status |-> 0, text |-> "", json |-> FALSE, ct |-> FALSE]

\* x.ok: true for a Response with a status in 200..299, undefined for a promise
okOf(x) == x.type = "Response" /\ x.status \in 200..299

Returned(v) == [kind |-> "returned", error |-> "", status |-> 0, text |-> "", value |-> v]

Thrown(name, status, text) ==
  [kind |-> "thrown", error |-> name, status |-> status, text |-> text, value |-> ""]

\* async function ok(res): if (!res.ok) { text = await res.text().catch(...);
\* throw new Error(status statusText text) } return res.  res is the argument
\* as passed; calling text on a value that has no such method throws
ok(res) ==
  IF ~okOf(res)
  THEN IF res.type = "Response" THEN Thrown("Error", res.status, res.text)
       ELSE Thrown("TypeError: res.text is not a function", 0, "")
  ELSE Returned("res")

\* the rest of a helper after await ok(...): r.json(), or r.ok for putToUrl
afterOk(helper, r) ==
  IF helper = "putToUrl" THEN Returned("true")
  ELSE IF r.json THEN Returned("json")
  ELSE Thrown("SyntaxError", 0, "")

\* a helper of the API client module: r = await ok(fetch(...)); return ...
helperOf(helper, settled) ==
  LET r == ok(Promise)
  IN  IF r.kind = "thrown" THEN r ELSE afterOk(helper, settled)

\* jfetch: res = await fetch(...); throw on !res.ok; else json or text
jfetch(res) ==
  IF res.type = "NetworkError" THEN Thrown("TypeError: Failed to fetch", 0, "")
  ELSE IF ~okOf(res) THEN Thrown("Error", res.status, res.text)
  ELSE IF res.ct THEN (IF res.json THEN Returned("json") ELSE Thrown("SyntaxError", 0, ""))
  ELSE Returned("text")

NoOutcome == [kind |-> "pending", error |-> "", status |-> 0, text |-> "", value |-> ""]

ApiInit ==
  /\ \E h \in Helpers :
       call = [helper |-> h, pc |-> "call", response |-> Promise, outcome |-> NoOutcome]
  /\ env = [apiBase |-> FALSE, window |-> FALSE, eventSource |-> FALSE]
  /\ HookIdle
  /\ MUIdle
  /\ CrawlIdle
  /\ BakeIdle
  /\ DoctorIdle
  /\ RetryIdle
  /\ BaseIdle
  /\ LocalIdle
  /\ ExtIdle

\* the helper is called and runs up to its first await that has to wait: a
\* helper of the API client module has then already run ok() on the promise
ApiCall ==
  /\ call.pc = "call"
  /\ call' = [call EXCEPT
       !.pc = "fetching",
       !.outcome = IF call.helper = "jfetch" THEN NoOutcome
                   ELSE LET r == ok(Promise)
                        IN  IF r.kind = "thrown" THEN r ELSE NoOutcome]
  /\ UNCHANGED <<bake, doctor, retry, base, localDoctor, notTools>>

\* the fetch settles, with a Response or a network failure
ApiResponse ==
  \E res \in Responses \cup {NetworkError} :
    /\ call.pc = "fetching"
    /\ call' = [call EXCEPT
         !.pc = "settled", !.response = res,
         !.outcome = IF call.helper = "jfetch" THEN jfetch(res)
                     ELSE IF call.outcome # NoOutcome THEN call.outcome
                     ELSE helperOf(call.helper, res)]
    /\ UNCHANGED <<bake, doctor, retry, base, localDoctor, notTools>>

ApiNext == ApiCall \/ ApiResponse

SpecApi == ApiInit /\ [][ApiNext]_vars

(***************************************************************************)
(* Claims about the API client helpers.                                    *)
(***************************************************************************)
\* C19: a helper throws if and only if the HTTP response has a non-success
\* status, and the error then carries the status and the body text; on a
\* success status it returns and does not throw.
C19_ThrowsIffNotOk ==
  (call.pc = "settled" /\ call.response.type = "Response") =>
    IF call.response.status \in 200..299
    THEN call.outcome.kind = "returned" \/ call.outcome.error = "SyntaxError"
    ELSE /\ call.outcome.kind = "thrown"
         /\ call.outcome.status = call.response.status
         /\ call.outcome.text = call.response.text

(***************************************************************************)
(* The local doctor scripts: friday-frontend/doctor.ps1, which checks the  *)
(* tools, the files and the application object and then starts the backend *)
(* and the frontend, and doctor.ps1, which only reports.                   *)
(***************************************************************************)
LocalScripts == {"friday-frontend/doctor.ps1", "doctor.ps1"}

\* a tool runs and exits 0, runs and exits non-zero, or is not installed
ToolStates == {"ok", "fails", "missing"}

Machines == [python : ToolStates, node : ToolStates, npm : ToolStates,
             files : BOOLEAN, app : BOOLEAN]

\* $LASTEXITCODE after running a tool: a tool that is not installed leaves it
\* as it was (-1 stands for not set, which is not equal to 0 either)
lastExitAfter(d, tool) ==
  IF d.machine[tool] = "ok" THEN 0
  ELSE IF d.machine[tool] = "fails" THEN 1
  ELSE d.lastExit

\* the step is recorded; hard is whether the machine has a hard failure there
Step(d, name, hard) ==
  [d EXCEPT !.steps = Append(d.steps, name),
            !.failed = IF d.failed = 0 /\ hard THEN Len(d.steps) + 1 ELSE d.failed]

\* exit <code>, or the end of the script
Stop(d, code) == [d EXCEPT !.pc = "end", !.exit = code]

Goto(d, pc) == [d EXCEPT !.pc = pc]

LocalInit ==
  /\ \E sc \in LocalScripts, mc \in Machines :
       localDoctor = [script |-> sc, pc |-> "python", machine |-> mc, lastExit |-> -1,
                      steps |-> <<>>, failed |-> 0, launched |-> {}, reported |-> {},
                      exit |-> -1]
  /\ env = [apiBase |-> FALSE, window |-> FALSE, eventSource |-> FALSE]
  /\ HookIdle
  /\ MUIdle
  /\ CrawlIdle
  /\ BakeIdle
  /\ DoctorIdle
  /\ RetryIdle
  /\ BaseIdle
  /\ CallIdle
  /\ ExtIdle

NextTool(tool) == IF tool = "python" THEN "node" ELSE IF tool = "node" THEN "npm" ELSE "files"

\* friday-frontend/doctor.ps1: <tool> --version; if ($LASTEXITCODE -ne 0)
\* { Bad; exit 1 }.  Under ErrorActionPreference Stop a tool that is not
\* installed ends the script with an error
LocalToolStop ==
  \E tool \in {"python", "node", "npm"} :
    /\ localDoctor.script = "friday-frontend/doctor.ps1"
    /\ localDoctor.pc = tool
    /\ LET d == Step([localDoctor EXCEPT !.lastExit = lastExitAfter(localDoctor, tool)],
                     tool, localDoctor.machine[tool] # "ok")
       IN  localDoctor' =
             IF localDoctor.machine[tool] = "missing" THEN Stop(d, 1)
             ELSE IF d.lastExit # 0
                  THEN Stop([d EXCEPT !.reported = @ \cup {tool}], 1)
                  ELSE Goto(d, NextTool(tool))
    /\ UNCHANGED <<bake, doctor, retry, base, call, notTools>>

\* doctor.ps1: python --version; if ($LASTEXITCODE -ne 0) { Bad } else { Ok }
LocalPython ==
  /\ localDoctor.script = "doctor.ps1"
  /\ localDoctor.pc = "python"
  /\ LET d == Step([localDoctor EXCEPT !.lastExit = lastExitAfter(localDoctor, "python")],
                   "python", localDoctor.machine.python # "ok")
     IN  localDoctor' =
           Goto([d EXCEPT !.reported = IF d.lastExit # 0 THEN @ \cup {"python"} ELSE @],
                "node")
  /\ UNCHANGED <<bake, doctor, retry, base, call, notTools>>

\* doctor.ps1: node -v; npm -v; if ($LASTEXITCODE -ne 0) { Bad } else { Ok }
LocalNodeNpm ==
  /\ localDoctor.script = "doctor.ps1"
  /\ localDoctor.pc = "node"
  /\ LET d1 == [localDoctor EXCEPT !.lastExit = lastExitAfter(localDoctor, "node")]
         d2 == [d1 EXCEPT !.lastExit = lastExitAfter(d1, "npm")]
         d  == Step(d2, "node/npm",
                    localDoctor.machine.node # "ok" \/ localDoctor.machine.npm # "ok")
     IN  localDoctor' =
           Goto([d EXCEPT !.reported = IF d.lastExit # 0 THEN @ \cup {"node/npm"} ELSE @],
                "files")
  /\ UNCHANGED <<bake, doctor, retry, base, call, notTools>>

\* the required files: friday-frontend/doctor.ps1 exits 1 when one is
\* missing, doctor.ps1 reports and goes on
LocalFiles ==
  /\ localDoctor.pc = "files"
  /\ LET d == Step(localDoctor, "files", ~localDoctor.machine.files)
         r == [d EXCEPT !.reported = IF ~d.machine.files THEN @ \cup {"files"} ELSE @]
     IN  localDoctor' =
           IF d.script = "friday-frontend/doctor.ps1" /\ ~d.machine.files
           THEN Stop(r, 1)
           ELSE Goto(r, "app")
  /\ UNCHANGED <<bake, doctor, retry, base, call, notTools>>

\* python -c "... hasattr(m,'app')": without a working python the output is
\* empty, which is not the expected text
hasApp(d) == d.machine.python = "ok" /\ d.machine.app

LocalApp ==
  /\ localDoctor.pc = "app"
  /\ LET d == Step(localDoctor, "app", ~localDoctor.machine.app)
         r == [d EXCEPT !.reported = IF ~hasApp(d) THEN @ \cup {"app"} ELSE @]
     IN  localDoctor' =
           IF d.script = "friday-frontend/doctor.ps1" /\ ~hasApp(d)
           THEN Stop(r, 1)
           ELSE Goto(r, "ports")
  /\ UNCHANGED <<bake, doctor, retry, base, call, notTools>>

\* ports 8000 and 5173: friday-frontend/doctor.ps1 clears them and goes on to
\* start the backend; doctor.ps1 reports them and ends without an exit
LocalPorts ==
  /\ localDoctor.pc = "ports"
  /\ LET d == Step(localDoctor, "ports", FALSE)
     IN  localDoctor' =
           IF d.script = "friday-frontend/doctor.ps1" THEN Goto(d, "backend")
           ELSE Stop(d, 0)
  /\ UNCHANGED <<bake, doctor, retry, base, call, notTools>>

\* Start-Process for the backend, then for the frontend
LocalStart ==
  \E proc \in {"backend", "frontend"} :
    /\ localDoctor.pc = proc
    /\ localDoctor' =
         Goto([localDoctor EXCEPT !.launched = @ \cup {proc}],
              IF proc = "backend" THEN "frontend" ELSE "probe")
    /\ UNCHANGED <<bake, doctor, retry, base, call, notTools>>

\* the health probe only reports; the script then ends without an exit
LocalProbe ==
  \E healthy \in BOOLEAN :
    /\ localDoctor.pc = "probe"
    /\ LET d == Step(localDoctor, "probe", FALSE)
       IN  localDoctor' =
             Stop([d EXCEPT !.reported = IF healthy THEN @ ELSE @ \cup {"probe"}], 0)
    /\ UNCHANGED <<bake, doctor, retry, base, call, notTools>>

LocalNext ==
  \/ LocalToolStop
  \/ LocalPython
  \/ LocalNodeNpm
  \/ LocalFiles
  \/ LocalApp
  \/ LocalPorts
  \/ LocalStart
  \/ LocalProbe

SpecLocal == LocalInit /\ [][LocalNext]_vars

(***************************************************************************)
(* Claims about the local doctor scripts.                                  *)
(***************************************************************************)
\* C20: at the first hard failure (a runtime tool missing, a required file
\* missing, the backend module not exposing the application object) the
\* local doctor stops with a non-zero exit code: the failing check is the
\* last step it performs and it launches no process.
C20_StopsAtFirstHardFailure ==
  localDoctor.failed # 0 =>
    /\ localDoctor.pc = "end"
    /\ localDoctor.exit > 0
    /\ Len(localDoctor.steps) = localDoctor.failed
    /\ localDoctor.launched = {}

(***************************************************************************)
(* The schema of db_init.sql: documents with a UNIQUE external_id, chunks  *)
(* with document_id REFERENCES documents(id) ON DELETE CASCADE.  A row is  *)
(* a record of the columns the constraints read, plus title; the           *)
(* statements are INSERT INTO documents, INSERT INTO chunks and DELETE     *)
(* FROM documents WHERE id = ...                                           *)
(***************************************************************************)
NULL == "NULL"

ExternalIds == {NULL, "a", "b"}

Titles == {"t", "u"}

Ords == {0, 1}

\* external_id TEXT UNIQUE: a non-null value some row already has is refused
neverRefuses(documents, ext) == FALSE

uniqueViolation(documents, ext) ==
  ext # NULL /\ \E d \in documents : d.external_id = ext

\* REFERENCES documents(id): NULL (0), or the id of a row
references(documents, docId) == docId = 0 \/ \E d \in documents : d.id = docId

\* a cascade that goes by the ordinal of the document's chunks
cascadeByOrd(chunks, docId) ==
  {c \in chunks : \E x \in chunks : x.document_id = docId /\ x.ord = c.ord}

\* ON DELETE CASCADE: the chunk rows that reference the deleted document
cascade(chunks, docId) == {c \in chunks : c.document_id = docId}

DbInit ==
  /\ db = [pc |-> "open", documents |-> {}, chunks |-> {}, docSeq |-> 1, chunkSeq |-> 1,
           last |-> [op |-> "none", ok |-> TRUE, id |-> 0, ext |-> NULL, cascaded |-> {}]]
  /\ env = [apiBase |-> FALSE, window |-> FALSE, eventSource |-> FALSE]
  /\ HookIdle
  /\ MUIdle
  /\ CrawlIdle
  /\ ToolsIdle
  /\ WaitIdle
  /\ PatchIdle
  /\ SmokeIdle
  /\ PageIdle
  /\ DndIdle
  /\ DedupeIdle

\* INSERT INTO documents (external_id, title) VALUES (...): the id is taken
\* from the sequence before the constraint is checked
InsertDocument ==
  \E ext \in ExternalIds, title \in Titles :
    /\ db.pc = "open"
    /\ db.docSeq <= MaxDocIds
    /\ LET refused == uniqueViolation(db.documents, ext)
           row == [id |-> db.docSeq, external_id |-> ext, title |-> title]
       IN  db' = [db EXCEPT
             !.docSeq = @ + 1,
             !.documents = IF refused THEN @ ELSE @ \cup {row},
             !.last = [op |-> "insert document", ok |-> ~refused, id |-> db.docSeq,
                       ext |-> ext, cascaded |-> {}]]
    /\ UNCHANGED notDb

\* INSERT INTO chunks (document_id, ord, ...) VALUES (...)
InsertChunk ==
  \E docId \in 0..MaxDocIds, ord \in Ords :
    /\ db.pc = "open"
    /\ db.chunkSeq <= MaxChunkIds
    /\ LET accepted == references(db.documents, docId)
           row == [id |-> db.chunkSeq, document_id |-> docId, ord |-> ord]
       IN  db' = [db EXCEPT
             !.chunkSeq = @ + 1,
             !.chunks = IF accepted THEN @ \cup {row} ELSE @,
             !.last = [op |-> "insert chunk", ok |-> accepted, id |-> db.chunkSeq,
                       ext |-> NULL, cascaded |-> {}]]
    /\ UNCHANGED notDb

\* DELETE FROM documents WHERE id = ...
DeleteDocument ==
  \E docId \in 1..MaxDocIds :
    /\ db.pc = "open"
    /\ \E d \in db.documents : d.id = docId
    /\ LET gone == cascade(db.chunks, docId)
       IN  db' = [db EXCEPT
             !.documents = {d \in @ : d.id # docId},
             !.chunks = @ \ gone,
             !.last = [op |-> "delete document", ok |-> TRUE, id |-> docId,
                       ext |-> NULL, cascaded |-> gone]]
    /\ UNCHANGED notDb

DbNext == InsertDocument \/ InsertChunk \/ DeleteDocument

SpecDb == DbInit /\ [][DbNext]_vars

(***************************************************************************)
(* Claims about the schema.                                                *)
(***************************************************************************)
Deletes(docId) == db'.last.op = "delete document" /\ db'.last.id = docId /\ db' # db

\* C21: deleting a document row removes every chunk row whose document_id
\* references it and no other chunk row; a chunk of another document with
\* the same ordinal stays.
C21_CascadeExactlyOwnChunks ==
  [][\A docId \in 1..(MaxDocIds + 1) :
       Deletes(docId) =>
         db'.chunks = {c \in db.chunks : c.document_id # docId}]_vars

\* a document with a chunk was deleted while another document keeps a chunk
\* of the same ordinal
C21_Witness ==
  /\ db.pc = "open"
  /\ db.last.op = "delete document"
  /\ \E g \in db.last.cascaded : \E c \in db.chunks :
       c.ord = g.ord /\ c.document_id # 0

UniqueExternalId ==
  \A d1 \in db.documents : \A d2 \in db.documents :
    (d1.external_id # NULL /\ d1.external_id = d2.external_id) => d1 = d2

Reuses(ext) ==
  /\ db'.last.op = "insert document" /\ db'.last.ext = ext /\ db' # db
  /\ \E d \in db.documents : d.external_id = ext

\* C22: at most one document row exists for a non-null external_id; an
\* insertion that reuses an existing external_id is rejected and leaves the
\* existing rows as they were.
C22_ExternalIdUnique ==
  /\ [](db.pc = "open" => UniqueExternalId)
  /\ [][\A ext \in ExternalIds \ {NULL} :
          Reuses(ext) => (~db'.last.ok /\ db'.documents = db.documents)]_vars

\* a second insertion with an external_id in use was refused
C22_Witness ==
  /\ db.pc = "open"
  /\ db.last.op = "insert document"
  /\ ~db.last.ok
  /\ \E d \in db.documents : d.external_id = db.last.ext

(***************************************************************************)
(* The polling loops of the host automation scripts: Test-Url of the       *)
(* cleanup-and-push script (unnamed/part_001) and Deploy-And-Wait of       *)
(* scripts/friday-ci-auto.ps1.  The remote service answers as it likes.    *)
(***************************************************************************)
WaitScripts == {"Test-Url", "Deploy-And-Wait"}

\* what Invoke-WebRequest does: returns on a success status, throws on an
\* error status or when there is no response (0)
HealthAnswers == {200, 404, 503, 0}

\* the deploy statuses of the hosting service's API
DeployStatuses ==
  {"queued", "build_in_progress", "update_in_progress", "live", "build_failed", "canceled"}

\* while ($d.status -in @("build_in_progress","update_in_progress","queued"))
stillDeploying(status) == status \in {"build_in_progress", "update_in_progress", "queued"}

WaitInit ==
  /\ \E sc \in WaitScripts :
       waitLoop = [script |-> sc, pc |-> IF sc = "Test-Url" THEN "request" ELSE "trigger",
                   i |-> 1, ok |-> FALSE, made |-> 0, code |-> 0, status |-> "none"]
  /\ env = [apiBase |-> FALSE, window |-> FALSE, eventSource |-> FALSE]
  /\ HookIdle
  /\ MUIdle
  /\ CrawlIdle
  /\ ToolsIdle
  /\ DbIdle
  /\ PatchIdle
  /\ SmokeIdle
  /\ PageIdle
  /\ DndIdle
  /\ DedupeIdle

\* Test-Url: the body of the for loop, i <= 20: the request; on success
\* $ok = $true and break, in the catch the code is printed
TestUrlRequest ==
  \E answer \in HealthAnswers :
    /\ waitLoop.script = "Test-Url"
    /\ waitLoop.pc = "request"
    /\ waitLoop' =
         IF answer = 200
         THEN [waitLoop EXCEPT !.made = @ + 1, !.ok = TRUE, !.code = answer, !.pc = "end"]
         ELSE [waitLoop EXCEPT !.made = @ + 1, !.code = answer, !.pc = "sleep"]
    /\ UNCHANGED notWait

\* Test-Url: Start-Sleep -Seconds 3; $i++; the loop test
TestUrlSleep ==
  /\ waitLoop.script = "Test-Url"
  /\ waitLoop.pc = "sleep"
  /\ waitLoop' = [waitLoop EXCEPT
       !.i = @ + 1,
       !.pc = IF waitLoop.i + 1 <= MaxHealthAttempts THEN "request" ELSE "end"]
  /\ UNCHANGED notWait

\* Deploy-And-Wait: POST .../deploys; a failed request throws out of the
\* function to the caller's catch
DeployTrigger ==
  \E accepted \in BOOLEAN :
    /\ waitLoop.script = "Deploy-And-Wait"
    /\ waitLoop.pc = "trigger"
    /\ waitLoop' = [waitLoop EXCEPT !.pc = IF accepted THEN "sleep" ELSE "end"]
    /\ UNCHANGED notWait

\* Deploy-And-Wait: Start-Sleep -Seconds 6
DeploySleep ==
  /\ waitLoop.script = "Deploy-And-Wait"
  /\ waitLoop.pc = "sleep"
  /\ waitLoop' = [waitLoop EXCEPT !.pc = "poll"]
  /\ UNCHANGED notWait

\* Deploy-And-Wait: GET .../deploys/<id>, then the while test
DeployPoll ==
  \E status \in DeployStatuses \cup {"request failed"} :
    /\ waitLoop.script = "Deploy-And-Wait"
    /\ waitLoop.pc = "poll"
    /\ waitLoop' = [waitLoop EXCEPT
         !.status = status,
         !.pc = IF stillDeploying(status) THEN "sleep" ELSE "end"]
    /\ UNCHANGED notWait

WaitNext == TestUrlRequest \/ TestUrlSleep \/ DeployTrigger \/ DeploySleep \/ DeployPoll

\* a running script takes its next step
SpecWait == WaitInit /\ [][WaitNext]_vars /\ WF_vars(WaitNext)

(***************************************************************************)
(* Claims about the polling loops.                                         *)
(***************************************************************************)
\* C23: every polling loop stops after a fixed number of attempts or a fixed
\* deadline whatever the remote service answers: health polling makes at
\* most 20 attempts and stops at the first success, and waiting for a deploy
\* stops even if its status stays queued or in progress.
C23_LoopsStop ==
  /\ [](waitLoop.script = "Test-Url" =>
          /\ waitLoop.made <= MaxHealthAttempts
          /\ (waitLoop.ok => waitLoop.pc = "end"))
  /\ (waitLoop.pc # "idle") ~> (waitLoop.pc = "end")

(***************************************************************************)
(* The source-patch step of the bake scripts (auto-fix-and-doctor.ps1,     *)
(* redeploy-and-verify.ps1, unnamed/part_007).  main.js is read as text    *)
(* and rewritten by regular-expression replacements on its fetch call      *)
(* sites.  A call site is the text from "fetch(" to "api": the quote that  *)
(* opens the argument, what the string has before the path (base), and the *)
(* backslashes and slash in front of "api" (lead).                         *)
(***************************************************************************)
PatchScripts == {"auto-fix-and-doctor.ps1", "redeploy-and-verify.ps1", "part_007"}

Quotes == {"'", "dq", "none", "bt"}

\* "/": /api; "b/": \/api; "bb/": \\/api; "b": \api; "bb": \\api
Leads == {"/", "b/", "bb/", "b", "bb"}

Sites == [quote : Quotes, base : {"", "host"}, lead : Leads]

Sources ==
  [sites : UNION {[1..n -> Sites] : n \in 1..MaxSites}, const : BOOLEAN, envVar : BOOLEAN]

\* $raw -replace pattern, replacement: every call site the pattern matches
replace(sites, pattern, replacement) ==
  [k \in DOMAIN sites |-> IF sites[k] \in pattern THEN replacement ELSE sites[k]]

quoted(st) == st.quote \in {"'", "dq"}

\* auto-fix-and-doctor.ps1: fetch\((['"])\s*\\?/api, then fetch\((['"])\s*/api,
\* each replaced by "fetch($1$Backend/api", where $1 expands to nothing
patchAutoFix(src) ==
  LET one  == {st \in Sites : quoted(st) /\ st.base = "" /\ st.lead \in {"/", "b/"}}
      two  == {st \in Sites : quoted(st) /\ st.base = "" /\ st.lead = "/"}
      host == [quote |-> "none", base |-> "host", lead |-> "/"]
  IN  [src EXCEPT !.sites = replace(replace(@, one, host), two, host), !.const = TRUE]

\* redeploy-and-verify.ps1: the three backslash fixes to fetch('/api, then
\* fetch\(\s*['"]\s*/api to fetch(${backend}/api
patchRedeploy(src) ==
  LET bare == {st \in Sites : st.quote = "none" /\ st.base = "" /\ st.lead \in {"bb/", "bb", "/"}}
      rel  == [quote |-> "'", base |-> "", lead |-> "/"]
      site == {st \in Sites : quoted(st) /\ st.base = "" /\ st.lead = "/"}
      abs  == [quote |-> "none", base |-> "host", lead |-> "/"]
  IN  [src EXCEPT !.sites = replace(replace(@, bare, rel), site, abs), !.const = TRUE]

\* part_007: the three backslash fixes to fetch("/api, then fetch\("?/api to
\* fetch(`${backend}/api or, with the variable in the text, to
\* fetch(`${import.meta.env.VITE_BACKEND_URL}/api
patchPart007(src) ==
  LET bare == {st \in Sites : st.quote = "none" /\ st.base = "" /\ st.lead \in {"bb/", "bb", "b"}}
      rel  == [quote |-> "dq", base |-> "", lead |-> "/"]
      site == {st \in Sites : st.quote \in {"dq", "none"} /\ st.base = "" /\ st.lead = "/"}
      abs  == [quote |-> "bt", base |-> "host", lead |-> "/"]
  IN  [src EXCEPT !.sites = replace(replace(@, bare, rel), site, abs),
                  !.const = src.const \/ ~src.envVar]

PatchInit ==
  /\ \E sc \in PatchScripts, src \in Sources :
       patchRun = [script |-> sc, pc |-> "read", file |-> src, raw |-> src]
  /\ env = [apiBase |-> FALSE, window |-> FALSE, eventSource |-> FALSE]
  /\ HookIdle
  /\ MUIdle
  /\ CrawlIdle
  /\ ToolsIdle
  /\ DbIdle
  /\ WaitIdle
  /\ SmokeIdle
  /\ PageIdle
  /\ DndIdle
  /\ DedupeIdle

\* $raw = Get-Content $main -Raw, and the replacements
PatchRewrite ==
  /\ patchRun.pc = "read"
  /\ patchRun' = [patchRun EXCEPT
       !.pc = "write",
       !.raw = IF patchRun.script = "auto-fix-and-doctor.ps1" THEN patchAutoFix(@)
               ELSE IF patchRun.script = "redeploy-and-verify.ps1" THEN patchRedeploy(@)
               ELSE patchPart007(@)]
  /\ UNCHANGED notPatch

\* Set-Content -Path $main -Value $raw
PatchWrite ==
  /\ patchRun.pc = "write"
  /\ patchRun' = [patchRun EXCEPT !.pc = "done", !.file = patchRun.raw]
  /\ UNCHANGED notPatch

PatchNext == PatchRewrite \/ PatchWrite

SpecPatch == PatchInit /\ [][PatchNext]_vars

(***************************************************************************)
(* Claims about the source-patch step.                                     *)
(***************************************************************************)
\* fetch('/api or fetch("/api
relativeFetch(st) == quoted(st) /\ st.base = "" /\ st.lead = "/"

\* C24: after the source-patch step the written main.js has no relative
\* fetch call site of the form fetch('/api or fetch("/api.
C24_NoRelativeFetchLeft ==
  patchRun.pc = "done" =>
    \A k \in DOMAIN patchRun.file.sites : ~relativeFetch(patchRun.file.sites[k])

(***************************************************************************)
(* The smoke-test clients friday-client.ps1 (fixed endpoints) and          *)
(* frontend/friday-client.ps1 (routes discovered from /openapi.json, with  *)
(* fallbacks).  Neither sets $ErrorActionPreference: an error of a cmdlet  *)
(* outside try/catch ends that statement and the script goes on, while     *)
(* throw and exit end the script.                                          *)
(***************************************************************************)
SmokeScripts == {"friday-client.ps1", "frontend/friday-client.ps1"}

Routes == {"upload", "confirm", "query"}

RoutePaths == [prefix : {"/api/rag", "/rag"}, name : {"upload_url", "confirm_upload", "query"}]

NoPath == [prefix |-> "", name |-> ""]

\* the patterns /upload_url$, /confirm_upload$, and /rag/query$ or /query$
matchesRoute(route, path) ==
  path.name = (IF route = "upload" THEN "upload_url"
               ELSE IF route = "confirm" THEN "confirm_upload" ELSE "query")

\* the fixed candidate list of a route, root before /api
CandidatesRootFirst(route) ==
  LET name == IF route = "upload" THEN "upload_url"
              ELSE IF route = "confirm" THEN "confirm_upload" ELSE "query"
  IN  <<[prefix |-> "/rag", name |-> name], [prefix |-> "/api/rag", name |-> name]>>

\* the fixed candidate list of a route: ("/api/rag/...", "/rag/...")
Candidates(route) ==
  LET name == IF route = "upload" THEN "upload_url"
              ELSE IF route = "confirm" THEN "confirm_upload" ELSE "query"
  IN  <<[prefix |-> "/api/rag", name |-> name], [prefix |-> "/rag", name |-> name]>>

\* ... | Where-Object { test } | Select-Object -First 1; $null when none passes
FirstWhere(seq, passing) ==
  LET test(x) == x \in passing
      hits == SelectSeq(seq, test)
  IN  IF hits = <<>> THEN NoPath ELSE Head(hits)

\* $xPath from the document, then the fallback if (-not $xPath)
resolve(c, route) ==
  LET inDoc == {pth \in RoutePaths : matchesRoute(route, pth)}
      probes == c.exists
      fromDoc == IF c.openapi = "ok" THEN FirstWhere(c.doc, inDoc) ELSE NoPath
  IN  IF fromDoc # NoPath THEN fromDoc ELSE FirstWhere(Candidates(route), probes)

Backends ==
  [openapi : {"ok", "denied", "missing"},
   doc : UNION {[1..n -> RoutePaths] : n \in 0..MaxPaths},
   exists : SUBSET RoutePaths]

\* friday-client.ps1 reads no document; it only probes its query endpoint
FixedBackends ==
  [openapi : {"missing"}, doc : {<<>>},
   exists : SUBSET {[prefix |-> "/api/rag", name |-> "query"]}]

SmokeInit ==
  /\ \E sc \in SmokeScripts, dq \in BOOLEAN :
       \E bk \in IF sc = "friday-client.ps1" THEN FixedBackends ELSE Backends :
         smoke = [script |-> sc, pc |-> "health", doQuery |-> dq, openapi |-> bk.openapi,
                  doc |-> bk.doc, exists |-> bk.exists,
                  routes |-> [r \in Routes |-> NoPath], discovered |-> FALSE,
                  s3Uri |-> FALSE,
                  sent |-> <<>>, failed |-> {}, exit |-> -1]
  /\ env = [apiBase |-> FALSE, window |-> FALSE, eventSource |-> FALSE]
  /\ HookIdle
  /\ MUIdle
  /\ CrawlIdle
  /\ ToolsIdle
  /\ DbIdle
  /\ WaitIdle
  /\ PatchIdle
  /\ PageIdle
  /\ DndIdle
  /\ DedupeIdle

\* a request is issued; it succeeds or fails
Send(c, step, good) ==
  [c EXCEPT !.sent = Append(@, step), !.failed = IF good THEN @ ELSE @ \cup {step}]

\* exit <code>, or an uncaught throw (1), or the end of the script (0)
SmokeEnd(c, code) == [c EXCEPT !.pc = "end", !.exit = code]

\* step 1: the health request in try/catch; the catch ends in exit 1
SmokeHealth ==
  \E good \in BOOLEAN :
    /\ smoke.pc = "health"
    /\ smoke' = IF good THEN [Send(smoke, "health", TRUE) EXCEPT !.pc = "discover"]
                ELSE SmokeEnd(Send(smoke, "health", FALSE), 1)
    /\ UNCHANGED notSmoke

\* the endpoints: computed from $Base in friday-client.ps1, discovered in
\* frontend/friday-client.ps1
SmokeDiscover ==
  /\ smoke.pc = "discover"
  /\ smoke' = [smoke EXCEPT
       !.pc = "presign",
       !.discovered = TRUE,
       !.routes = IF smoke.script = "friday-client.ps1"
                  THEN [r \in Routes |-> Head(Candidates(r))]
                  ELSE [r \in Routes |-> resolve(smoke, r)]]
  /\ UNCHANGED notSmoke

\* presign through Invoke-WithRetry: a failure of every attempt is thrown;
\* a response without put_url or s3_uri ends the script; if ($uploadUrl)
SmokePresign ==
  \E answer \in {"fields", "no fields", "fails"} :
    /\ smoke.pc = "presign"
    /\ smoke' =
         IF smoke.routes["upload"] = NoPath THEN [smoke EXCEPT !.pc = "confirm"]
         ELSE IF answer = "fails" THEN SmokeEnd(Send(smoke, "presign", FALSE), 1)
         ELSE IF answer = "no fields" THEN SmokeEnd(Send(smoke, "presign", TRUE), 1)
         ELSE [Send(smoke, "presign", TRUE) EXCEPT !.pc = "put", !.s3Uri = TRUE]
    /\ UNCHANGED notSmoke

\* Invoke-WebRequest -Uri $putUrl -Method PUT ... | Out-Null, outside any
\* try: on an error the statement ends and the next statement runs
SmokePut ==
  \E good \in BOOLEAN :
    /\ smoke.pc = "put"
    /\ smoke' = [Send(smoke, "put", good) EXCEPT !.pc = "confirm"]
    /\ UNCHANGED notSmoke

\* confirm through Invoke-WithRetry; frontend/friday-client.ps1 asks
\* if ($confirmUrl -and $s3Uri)
SmokeConfirm ==
  \E good \in BOOLEAN :
    /\ smoke.pc = "confirm"
    /\ smoke' =
         IF smoke.script = "frontend/friday-client.ps1"
            /\ (smoke.routes["confirm"] = NoPath \/ ~smoke.s3Uri)
         THEN [smoke EXCEPT !.pc = "query"]
         ELSE IF good THEN [Send(smoke, "confirm", TRUE) EXCEPT !.pc = "query"]
         ELSE SmokeEnd(Send(smoke, "confirm", FALSE), 1)
    /\ UNCHANGED notSmoke

\* if ($DoQuery): the query when its route is there (friday-client.ps1
\* probes its endpoint with OPTIONS), a failure is rethrown
SmokeQuery ==
  \E good \in BOOLEAN :
    /\ smoke.pc = "query"
    /\ LET has == IF smoke.script = "friday-client.ps1"
                  THEN smoke.routes["query"] \in smoke.exists
                  ELSE smoke.routes["query"] # NoPath
       IN  smoke' =
             IF ~smoke.doQuery \/ ~has THEN SmokeEnd(smoke, 0)
             ELSE IF good THEN SmokeEnd(Send(smoke, "query", TRUE), 0)
             ELSE SmokeEnd(Send(smoke, "query", FALSE), 1)
    /\ UNCHANGED notSmoke

SmokeNext ==
  \/ SmokeHealth
  \/ SmokeDiscover
  \/ SmokePresign
  \/ SmokePut
  \/ SmokeConfirm
  \/ SmokeQuery

SpecSmoke == SmokeInit /\ [][SmokeNext]_vars

(***************************************************************************)
(* Claims about the smoke-test clients.                                    *)
(***************************************************************************)
StepRank(step) ==
  IF step = "health" THEN 1 ELSE IF step = "presign" THEN 2 ELSE IF step = "put" THEN 3
  ELSE IF step = "confirm" THEN 4 ELSE 5

\* C25: the steps run in the order health, presign, PUT, confirm, query, and
\* a step is issued only if every earlier step succeeded: no confirm after a
\* failed PUT.
C25_StepsOnlyAfterSuccess ==
  \A j \in DOMAIN smoke.sent : \A i \in 1..(j - 1) :
    /\ StepRank(smoke.sent[i]) < StepRank(smoke.sent[j])
    /\ smoke.sent[i] \notin smoke.failed

StepOf(route) == IF route = "upload" THEN "presign" ELSE route

IsStepSent(step) == \E k \in DOMAIN smoke.sent : smoke.sent[k] = step

\* the path the route table gives: least position in the document that
\* matches, else least position in the candidate list that probes as existing
Expected(route) ==
  LET docHits == {k \in DOMAIN smoke.doc : matchesRoute(route, smoke.doc[k])}
      cands == <<[prefix |-> "/api/rag", name |-> Head(Candidates(route)).name],
                 [prefix |-> "/rag", name |-> Head(Candidates(route)).name]>>
      live == {k \in 1..2 : cands[k] \in smoke.exists}
  IN  IF smoke.openapi = "ok" /\ docHits # {} THEN smoke.doc[Min(docHits)]
      ELSE IF live # {} THEN cands[Min(live)]
      ELSE NoPath

\* C26: each route is the first matching path of the API description
\* document when that is reachable and has a match, else the first candidate
\* (/api before root) that probes as existing, else unresolved, and then its
\* step is skipped.
C26_RouteResolution ==
  (smoke.script = "frontend/friday-client.ps1" /\ smoke.pc # "idle" /\ smoke.discovered) =>
    \A route \in Routes :
      /\ smoke.routes[route] = Expected(route)
      /\ (smoke.routes[route] = NoPath => ~IsStepSent(StepOf(route)))

\* a run that took one route from the document, one from the candidates
\* with both candidates existing, and skipped the step of an unresolved one
C26_Witness ==
  /\ smoke.script = "frontend/friday-client.ps1"
  /\ smoke.pc = "end"
  /\ smoke.exit = 0
  /\ smoke.openapi = "ok"
  /\ smoke.routes["upload"] = [prefix |-> "/rag", name |-> "upload_url"]
  /\ [prefix |-> "/api/rag", name |-> "upload_url"] \in smoke.exists
  /\ smoke.routes["confirm"] = [prefix |-> "/api/rag", name |-> "confirm_upload"]
  /\ [prefix |-> "/rag", name |-> "confirm_upload"] \in smoke.exists
  /\ \A k \in DOMAIN smoke.doc : smoke.doc[k].name # "confirm_upload"
  /\ smoke.routes["query"] = NoPath
  /\ smoke.doQuery
  /\ IsStepSent("confirm")

(***************************************************************************)
(* The page-level multi uploader (src/pages/MultiUploader.jsx): the files  *)
(* state, the runs of startUpload with the files array each one iterates,  *)
(* and the EventSource listenSSE opens for the item a run is at.          *)
(***************************************************************************)
\* the statuses a job stream message can carry
StreamStatuses == {"queued", "processing", "done", "error", "failed"}

NewPageItem == [done |-> FALSE, error |-> "", sseStatus |-> "pending"]

\* setFiles(prev => prev.map(x => x.id === item.id ? {...x, ...} : x))
setFile(pg, id, field, value) ==
  [pg EXCEPT !.files = [k \in DOMAIN @ |-> IF k = id THEN [@[k] EXCEPT ![field] = value]
                                           ELSE @[k]]]

\* the catch of the loop body, then the next item
rejected(pg, r, why) ==
  [setFile(pg, pg.runs[r].i, "error", why) EXCEPT
     !.runs[r].i = @ + 1, !.runs[r].step = "begin", !.runs[r].heard = ""]

PageInit ==
  /\ page = [pc |-> "mounted", files |-> <<>>, runs |-> <<>>]
  /\ env = [apiBase |-> FALSE, window |-> FALSE, eventSource |-> FALSE]
  /\ HookIdle
  /\ MUIdle
  /\ CrawlIdle
  /\ ToolsIdle
  /\ DbIdle
  /\ WaitIdle
  /\ PatchIdle
  /\ SmokeIdle
  /\ DndIdle
  /\ DedupeIdle

\* onPick / onDrop: setFiles(prev => [...prev, ...mapped])
onPick ==
  /\ page.pc = "mounted"
  /\ Len(page.files) < MaxPageItems
  /\ page' = [page EXCEPT !.files = Append(@, NewPageItem)]
  /\ UNCHANGED notPage

\* the Upload button: canUpload, then startUpload() over the files it sees
startUpload ==
  /\ page.pc = "mounted"
  /\ Len(page.runs) < MaxPageRuns
  /\ \E k \in DOMAIN page.files : ~page.files[k].done /\ page.files[k].error = ""
  /\ page' = [page EXCEPT !.runs = Append(@,
       [files |-> page.files, i |-> 1, step |-> "begin", stream |-> "none", heard |-> ""])]
  /\ UNCHANGED notPage

\* for (const item of files) { if (item.done || item.error) continue
PageLoop ==
  \E r \in DOMAIN page.runs :
    LET rn == page.runs[r]
    IN  /\ rn.step = "begin"
        /\ page' = [page EXCEPT !.runs[r] =
             IF rn.i > Len(rn.files) THEN [rn EXCEPT !.step = "finished"]
             ELSE IF rn.files[rn.i].done \/ rn.files[rn.i].error # ""
                  THEN [rn EXCEPT !.i = @ + 1]
                  ELSE [rn EXCEPT !.step = "file_url"]]
        /\ UNCHANGED notPage

\* the file_url request, the PUT and confirm_upload: on a response that is
\* not ok an Error is thrown; after confirm listenSSE opens the stream
PageRequest ==
  \E r \in DOMAIN page.runs, good \in BOOLEAN :
    LET rn == page.runs[r]
    IN  /\ rn.step \in {"file_url", "put", "confirm_upload"}
        /\ page' =
             IF ~good THEN rejected(page, r, rn.step)
             ELSE IF rn.step = "file_url" THEN [page EXCEPT !.runs[r].step = "put"]
             ELSE IF rn.step = "put" THEN [page EXCEPT !.runs[r].step = "confirm_upload"]
             ELSE [page EXCEPT !.runs[r].step = "listen", !.runs[r].stream = "open"]
        /\ UNCHANGED notPage

\* ev.onmessage: onMessage(data); on 'done' or 'failed' ev.close() and the
\* promise settles, resolve() leading to step 5 and the next item
onmessage ==
  \E r \in DOMAIN page.runs, status \in StreamStatuses :
    LET rn == page.runs[r]
        shown == setFile(page, rn.i, "sseStatus", status)
    IN  /\ rn.step = "listen"
        /\ rn.stream = "open"
        /\ page' =
             IF status = "done"
             THEN [setFile(setFile(shown, rn.i, "done", TRUE), rn.i, "sseStatus", "done")
                     EXCEPT !.runs[r].stream = "closed", !.runs[r].i = @ + 1,
                            !.runs[r].step = "begin", !.runs[r].heard = ""]
             ELSE IF status = "failed"
                  THEN [rejected(shown, r, "job failed") EXCEPT !.runs[r].stream = "closed"]
                  ELSE [shown EXCEPT !.runs[r].heard = status]
        /\ UNCHANGED notPage

\* ev.onerror: ev.close(); reject(new Error('SSE connection error'))
PageStreamError ==
  \E r \in DOMAIN page.runs :
    /\ page.runs[r].step = "listen"
    /\ page.runs[r].stream = "open"
    /\ page' = [rejected(page, r, "SSE connection error") EXCEPT !.runs[r].stream = "closed"]
    /\ UNCHANGED notPage

PageNext ==
  \/ onPick
  \/ startUpload
  \/ PageLoop
  \/ PageRequest
  \/ onmessage
  \/ PageStreamError

SpecPage == PageInit /\ [][PageNext]_vars

(***************************************************************************)
(* Claims about the page-level multi uploader.                             *)
(***************************************************************************)
\* C27: when the job stream reports the terminal status error for an item,
\* the stream is closed, the item is marked as failed and the batch goes on
\* to the next item: no rn stays listening on an item whose stream has
\* reported error.
C27_ErrorStatusEndsItem ==
  \A r \in DOMAIN page.runs :
    page.runs[r].heard = "error" =>
      /\ page.runs[r].stream = "closed"
      /\ page.runs[r].step # "listen"

(***************************************************************************)
(* The single-file drag-and-drop widget (components/DragDropUpload.tsx):   *)
(* the state file (0 = null) and phase, and the calls of handleUpload,     *)
(* each at its pending await.                                              *)
(***************************************************************************)
DndFiles == {0, 1, 2}

\* disabled={!canUpload || phase === "asking" || phase === "putting" ||
\* phase === "confirming"}, canUpload = !!file && !!API_BASE
uploadDisabled(w) ==
  w.file = 0 \/ ~w.apiBase \/ w.phase \in {"asking", "putting", "confirming"}

DndInit ==
  /\ \E ab \in BOOLEAN :
       dnd = [pc |-> "mounted", apiBase |-> ab, file |-> 0, phase |-> "idle", calls |-> <<>>]
  /\ env = [apiBase |-> FALSE, window |-> FALSE, eventSource |-> FALSE]
  /\ HookIdle
  /\ MUIdle
  /\ CrawlIdle
  /\ ToolsIdle
  /\ DbIdle
  /\ WaitIdle
  /\ PatchIdle
  /\ SmokeIdle
  /\ PageIdle
  /\ DedupeIdle

\* onFiles(f), from the file input or a drop: setFile(f); setPhase("idle")
onFiles ==
  \E f \in DndFiles :
    /\ dnd.pc = "mounted"
    /\ dnd' = [dnd EXCEPT !.file = f, !.phase = "idle"]
    /\ UNCHANGED notDnd

\* a click on the enabled Upload button: handleUpload() up to its first await
handleUpload ==
  /\ dnd.pc = "mounted"
  /\ ~uploadDisabled(dnd)
  /\ Len(dnd.calls) < MaxUploads
  /\ dnd' = [dnd EXCEPT !.phase = "asking",
                        !.calls = Append(@, [file |-> dnd.file, at |-> "asking"])]
  /\ UNCHANGED notDnd

\* a pending fetch of a call settles: the call goes on to its next await,
\* or returns with phase error, or is left rejected when fetch throws
DndSettle ==
  \E c \in DOMAIN dnd.calls, outcome \in {"ok", "not ok", "throws"} :
    LET at == dnd.calls[c].at
        then == IF at = "asking" THEN "putting"
                ELSE IF at = "putting" THEN "confirming"
                ELSE IF at = "confirming" THEN "file_url" ELSE "done"
    IN  /\ at \in {"asking", "putting", "confirming", "file_url"}
        /\ dnd' =
             IF outcome = "throws" THEN [dnd EXCEPT !.calls[c].at = "rejected"]
             ELSE IF at = "file_url" THEN [dnd EXCEPT !.calls[c].at = "done", !.phase = "done"]
             ELSE IF outcome = "not ok"
                  THEN [dnd EXCEPT !.calls[c].at = "returned", !.phase = "error"]
                  ELSE [dnd EXCEPT !.calls[c].at = then,
                                   !.phase = IF then = "file_url" THEN @ ELSE then]
        /\ UNCHANGED notDnd

DndNext == onFiles \/ handleUpload \/ DndSettle

SpecDnd == DndInit /\ [][DndNext]_vars

(***************************************************************************)
(* Claims about the drag-and-drop widget.                                  *)
(***************************************************************************)
InFlight == {c \in DOMAIN dnd.calls : dnd.calls[c].at \in {"asking", "putting", "confirming"}}

\* C28: at most one presign/PUT/confirm sequence is in flight at any time,
\* whatever the interleaving of pressing Upload and selecting or dropping a
\* new file.
C28_OneUploadInFlight == dnd.pc = "mounted" => Cardinality(InFlight) <= 1

(***************************************************************************)
(* Claims about the external ids MultiUploaderWithStatus confirms.         *)
(***************************************************************************)
\* run r sends a confirm-upload request in this step, and no other call of
\* startAll is under way
SendsConfirm(r) ==
  /\ r \in DOMAIN runs'
  /\ runs'[r].pc = "confirming"
  /\ (r \in DOMAIN runs => runs[r].pc # "confirming")
  /\ \A q \in DOMAIN runs' : q # r => runs'[q].pc = "end"

\* C29: an external_id whose confirm-upload call the backend acknowledged
\* (its job exists) is never sent in a later confirm-upload call, also when
\* an item whose job ended in error is started again.  Stated for calls of
\* startAll that do not overlap.
C29_NoSecondConfirm ==
  [][\A r \in 1..(MaxRuns + 1) : SendsConfirm(r) => job[runs'[r].idx] = "none"]_vars

(***************************************************************************)
(* The duplicate-cleanup script (unnamed/part_001): it keeps               *)
(* backend/app/app.py, lists every app.py, asks, and deletes the others.   *)
(* A path is a name; "Keep" is the keep file's path in another case.       *)
(***************************************************************************)
AppFiles == {"keep", "Keep", "dup1", "dup2"}

Answers == {"y", "Y", "yes", "YES", "Yes", "", "n", "N", "no", "yep"}

\* $answer -notin @('y','Y','yes','YES') is false: -notin ignores case
affirmative(answer) == answer \in {"y", "Y", "yes", "YES", "Yes"}

\* a comparison that never recognises the keep file
isNeverKept(path) == FALSE

\* $f.FullName -ieq $keepFull
isKept(path) == path \in {"keep", "Keep"}

DedupeInit ==
  /\ \E fs \in SUBSET {"keep", "dup1", "dup2"} :
       dedupe = [pc |-> "locate", files |-> fs, all |-> {}, answer |-> "none",
                 deleted |-> {}, exit |-> -1]
  /\ env = [apiBase |-> FALSE, window |-> FALSE, eventSource |-> FALSE]
  /\ HookIdle
  /\ MUIdle
  /\ CrawlIdle
  /\ ToolsIdle
  /\ DbIdle
  /\ WaitIdle
  /\ PatchIdle
  /\ SmokeIdle
  /\ PageIdle
  /\ DndIdle

\* Test-Path $keepRel, else exit 1; $all = Get-ChildItem -Recurse -Filter
\* app.py, which may list the keep file under either spelling
DedupeLocate ==
  \E spelling \in {"keep", "Keep"} :
    /\ dedupe.pc = "locate"
    /\ dedupe' =
         IF "keep" \notin dedupe.files THEN [dedupe EXCEPT !.pc = "end", !.exit = 1]
         ELSE [dedupe EXCEPT !.pc = "ask",
                             !.all = (dedupe.files \ {"keep"}) \cup {spelling}]
    /\ UNCHANGED notDedupe

\* Read-Host; any answer that is not affirmative: exit 0
DedupeAsk ==
  \E answer \in Answers :
    /\ dedupe.pc = "ask"
    /\ dedupe' = IF affirmative(answer)
                 THEN [dedupe EXCEPT !.pc = "delete", !.answer = answer]
                 ELSE [dedupe EXCEPT !.pc = "end", !.answer = answer, !.exit = 0]
    /\ UNCHANGED notDedupe

\* one round of foreach ($f in $all): continue for the keep file, else
\* Remove-Item, whose failure is caught and printed
DedupeDelete ==
  \E f \in dedupe.all, removed \in BOOLEAN :
    /\ dedupe.pc = "delete"
    /\ dedupe' = [dedupe EXCEPT
         !.all = @ \ {f},
         !.files = IF ~isKept(f) /\ removed
                   THEN @ \ (IF f = "Keep" THEN {"keep"} ELSE {f}) ELSE @,
         !.deleted = IF ~isKept(f) /\ removed THEN @ \cup {f} ELSE @]
    /\ UNCHANGED notDedupe

\* after the loop: exit 1 unless the keep file is the only app.py left
DedupeVerify ==
  /\ dedupe.pc = "delete"
  /\ dedupe.all = {}
  /\ dedupe' = [dedupe EXCEPT !.pc = "end",
                              !.exit = IF dedupe.files = {"keep"} THEN 0 ELSE 1]
  /\ UNCHANGED notDedupe

DedupeNext == DedupeLocate \/ DedupeAsk \/ DedupeDelete \/ DedupeVerify

SpecDedupe == DedupeInit /\ [][DedupeNext]_vars

(***************************************************************************)
(* Claims about the duplicate-cleanup script.                              *)
(***************************************************************************)
\* C30: the script deletes no file unless the operator answered the prompt
\* affirmatively, and in no run deletes the keep file.
C30_DeletesOnlyOnYesNeverKeep ==
  dedupe.pc # "idle" =>
    /\ (dedupe.deleted # {} => dedupe.answer \in {"y", "Y", "yes", "YES", "Yes"})
    /\ dedupe.deleted \cap {"keep", "Keep"} = {}
    /\ (dedupe.pc # "locate" /\ dedupe.exit # 1 /\ dedupe.all # {} => "keep" \in dedupe.files)
    /\ (dedupe.pc = "end" /\ dedupe.exit = 0 => "keep" \in dedupe.files)

\* a run that deleted both duplicates after a yes, the keep file listed
\* under its other spelling
C30_Witness ==
  /\ dedupe.pc = "end"
  /\ dedupe.exit = 0
  /\ dedupe.deleted = {"dup1", "dup2"}
  /\ dedupe.files = {"keep"}

====
